---------------------------- MODULE Spec2Model ----------------------------
(***************************************************************************)
(* A model of mtproto_parser.c: the concurrent fetch -> extract -> dedup   *)
(* -> checkpoint pipeline (cycle/batch scheduler, worker threads, the      *)
(* record store, the checkpoint writer, the shutdown flag) and the pure    *)
(* per-match functions (sanitize_string, validate_proxy, compute_hash,     *)
(* the connection URL).                                                    *)
(*                                                                         *)
(* Strings are C strings: sequences of byte values 1..255 (the terminating *)
(* NUL is implicit).  64-bit words are sequences of 8 bytes, least         *)
(* significant first, so that the arithmetic modulo 2^64 is explicit.      *)
(***************************************************************************)
EXTENDS Integers, Sequences, FiniteSets, TLC

(***************************************************************************)
(* Program constants.  The field sizes are the sizes of the source; the    *)
(* capacities and the thread counts are scaled down (the source's value is *)
(* in the comment), keeping their order: 1 < PROXY_BATCH_SIZE <            *)
(* PROXY_CAPACITY and CONCURRENT_DOWNLOADS < MAX_THREAD_COUNT.             *)
(***************************************************************************)
SERVER_SIZE == 256
PORT_SIZE == 16
SECRET_SIZE == 512
CONNECTION_URL_SIZE == 512
PROXY_CAPACITY == 3
\* 1000000 in the source
PROXY_BATCH_SIZE == 2
\* 5000 in the source
CONCURRENT_DOWNLOADS == 2
\* 20 in the source
MAX_THREAD_COUNT == 3
\* 50 in the source
SECRET_HASH_PREFIX == 64
SECRET_SCAN_LIMIT == 128
DRAIN_POLLS == 30

Min(a, b) == IF a < b THEN a ELSE b

\* the largest size of a transfer buffer
BUFFER_CAPACITY == 100 * 1024 * 1024

\* An atomic_uint that counts bytes is held at its width of 32 bits, as two
\* halves of 16 bits <<low, high>>; the counters that count by one stay far
\* from 2^32 in every run of the model and are held as numbers.
HALF_WORD == 65536
ZeroU32 == <<0, 0>>

\* atomic_fetch_add on an atomic_uint: (c + n) modulo 2^32, for 0 <= n < 2^31
AddU32(c, n) ==
    LET low == c[1] + (n % HALF_WORD)
        high == c[2] + (n \div HALF_WORD) + (low \div HALF_WORD)
    IN  <<low % HALF_WORD, high % HALF_WORD>>

\* a <= b as unsigned numbers
LessEqU32(a, b) == a[2] < b[2] \/ (a[2] = b[2] /\ a[1] <= b[1])

\* for (i = lo; i <= hi; i++) st = Step(st, i): the iterations run in order.
\* The range is halved, and the state of the first half is evaluated (the
\* test left = left) before the second half starts, only to keep the
\* evaluation shallow.
RECURSIVE ForLoop(_, _, _, _)
ForLoop(Step(_, _), st, lo, hi) ==
    IF lo > hi THEN st
    ELSE IF lo = hi THEN Step(st, lo)
    ELSE LET mid == (lo + hi) \div 2
             left == ForLoop(Step, st, lo, mid)
         IN  IF left = left THEN ForLoop(Step, left, mid + 1, hi) ELSE st

(***************************************************************************)
(* Characters.                                                             *)
(***************************************************************************)
IsDigit(c) == c >= 48 /\ c <= 57
IsHexDigit(c) == IsDigit(c) \/ (c >= 97 /\ c <= 102) \/ (c >= 65 /\ c <= 70)
ToLower(c) == IF c >= 65 /\ c <= 90 THEN c + 32 ELSE c
\* isspace() of the C locale: space, \t \n \v \f \r
IsSpace(c) == c = 32 \/ (c >= 9 /\ c <= 13)

\* strncpy(dst, src, n) followed by dst[n] = 0, read back as a C string:
\* the first n bytes of src, cut at the first NUL byte.
strncpy(src, n) ==
    LET m == Min(n, Len(src))
        nul == {i \in 1..m : src[i] = 0}
        end == IF nul = {} THEN m ELSE (CHOOSE i \in nul : \A j \in nul : i <= j) - 1
    IN  SubSeq(src, 1, end)

(***************************************************************************)
(* sanitize_string: the read/write loop, then the trailing trim.           *)
(***************************************************************************)
\* one iteration of the while loop: st.out is the text written so far
SanitizeStep(str, st, read_ptr) ==
    LET c == str[read_ptr] IN
    IF c >= 32 /\ c < 127
    THEN IF c = 32 \/ c = 9 \/ c = 10 \/ c = 13
         THEN IF ~st.space_flag /\ Len(st.out) > 0
              THEN [out |-> Append(st.out, 32), space_flag |-> TRUE]
              ELSE st
         ELSE [out |-> Append(st.out, c), space_flag |-> FALSE]
    ELSE st

SanitizeLoop(str) ==
    LET Step(st, i) == SanitizeStep(str, st, i)
    IN  ForLoop(Step, [out |-> <<>>, space_flag |-> FALSE], 1, Len(str)).out

RECURSIVE TrimTrailing(_)
TrimTrailing(s) ==
    IF Len(s) > 0 /\ (s[Len(s)] = 32 \/ s[Len(s)] = 9)
    THEN TrimTrailing(SubSeq(s, 1, Len(s) - 1))
    ELSE s

sanitize_string(str) == TrimTrailing(SanitizeLoop(str))

(***************************************************************************)
(* Label prefixes and their stripping (strncasecmp, memmove, sanitize).    *)
(***************************************************************************)
\* "Server:"
LBL_SERVER == <<83, 101, 114, 118, 101, 114, 58>>
\* "server:"
LBL_SERVER_LC == <<115, 101, 114, 118, 101, 114, 58>>
\* "SERVER:"
LBL_SERVER_UC == <<83, 69, 82, 86, 69, 82, 58>>
\* "Host:"
LBL_HOST == <<72, 111, 115, 116, 58>>
\* "host:"
LBL_HOST_LC == <<104, 111, 115, 116, 58>>
\* "HOST:"
LBL_HOST_UC == <<72, 79, 83, 84, 58>>
\* "Port:"
LBL_PORT == <<80, 111, 114, 116, 58>>
\* "port:"
LBL_PORT_LC == <<112, 111, 114, 116, 58>>
\* "PORT:"
LBL_PORT_UC == <<80, 79, 82, 84, 58>>
\* "Secret:"
LBL_SECRET == <<83, 101, 99, 114, 101, 116, 58>>
\* "secret:"
LBL_SECRET_LC == <<115, 101, 99, 114, 101, 116, 58>>
\* "SECRET:"
LBL_SECRET_UC == <<83, 69, 67, 82, 69, 84, 58>>
\* "Key:"
LBL_KEY == <<75, 101, 121, 58>>
\* "key:"
LBL_KEY_LC == <<107, 101, 121, 58>>
\* "KEY:"
LBL_KEY_UC == <<75, 69, 89, 58>>

field_prefixes ==
    <<LBL_SERVER, LBL_SERVER_LC, LBL_SERVER_UC, LBL_HOST, LBL_HOST_LC, LBL_HOST_UC>>
port_prefixes == <<LBL_PORT, LBL_PORT_LC, LBL_PORT_UC>>
secret_prefixes ==
    <<LBL_SECRET, LBL_SECRET_LC, LBL_SECRET_UC, LBL_KEY, LBL_KEY_LC, LBL_KEY_UC>>

\* strncasecmp(s, prefix, strlen(prefix)) == 0
HasPrefixNoCase(s, prefix) ==
    /\ Len(s) >= Len(prefix)
    /\ \A k \in 1..Len(prefix) : ToLower(s[k]) = ToLower(prefix[k])

\* one pass of the loop over the prefix table
RECURSIVE StripPrefixes(_, _, _)
StripPrefixes(field, prefixes, i) ==
    IF i > Len(prefixes) THEN field
    ELSE IF HasPrefixNoCase(field, prefixes[i])
         THEN StripPrefixes(
                  sanitize_string(SubSeq(field, Len(prefixes[i]) + 1, Len(field))),
                  prefixes, i + 1)
         ELSE StripPrefixes(field, prefixes, i + 1)

(***************************************************************************)
(* validate_proxy.                                                         *)
(***************************************************************************)
\* strtol(port, &endptr, 10): [value, endptr] with endptr the number of
\* bytes consumed (0: no conversion).  A port has at most 15 bytes, so the
\* long never overflows; the value is only compared with 1 and 65535 and
\* is kept at 65536 once it has passed it.
PORT_MAX == 65535

RECURSIVE SkipSpace(_, _)
SkipSpace(s, i) == IF i <= Len(s) /\ IsSpace(s[i]) THEN SkipSpace(s, i + 1) ELSE i

RECURSIVE DigitRun(_, _, _)
DigitRun(s, i, acc) ==
    IF i <= Len(s) /\ IsDigit(s[i])
    THEN DigitRun(s, i + 1, Min(acc * 10 + (s[i] - 48), PORT_MAX + 1))
    ELSE [value |-> acc, endptr |-> i - 1]

\* (strtolMutant: the conversion without its end pointer, as atoi gives it,
\* to see that C12 depends on the test of *endptr)
strtolMutant(s) ==
    LET i0 == SkipSpace(s, 1)
        run == DigitRun(s, i0, 0)
    IN  [value |-> run.value, endptr |-> Len(s)]

strtol(s) ==
    LET i0 == SkipSpace(s, 1)
        signed == i0 <= Len(s) /\ (s[i0] = 43 \/ s[i0] = 45)
        negative == signed /\ s[i0] = 45
        i1 == IF signed THEN i0 + 1 ELSE i0
        run == DigitRun(s, i1, 0)
    IN  IF run.endptr < i1
        THEN [value |-> 0, endptr |-> 0]
        ELSE [value |-> IF negative THEN 0 - run.value ELSE run.value,
              endptr |-> run.endptr]

\* the loop over the first 128 bytes of the secret: [ok, valid_chars, hex_chars]
\* ok = FALSE once the loop has returned 0 on an invalid character
SecretScanStep(secret, st, i) ==
    LET c == secret[i] IN
    IF ~st.ok THEN st
    ELSE IF IsHexDigit(c)
         THEN [st EXCEPT !.valid_chars = @ + 1, !.hex_chars = @ + 1]
    ELSE IF c = 61 THEN [st EXCEPT !.valid_chars = @ + 1]
    ELSE IF c # 32 /\ c # 9 /\ c # 10 /\ c # 13 THEN [st EXCEPT !.ok = FALSE]
    ELSE st

SecretScan(secret) ==
    LET Step(st, i) == SecretScanStep(secret, st, i)
    IN  ForLoop(Step, [ok |-> TRUE, valid_chars |-> 0, hex_chars |-> 0],
                1, Min(Len(secret), SECRET_SCAN_LIMIT))

validate_proxy(server, port, secret) ==
    LET conv == strtol(port)
        scan == SecretScan(secret)
    IN  /\ ~(Len(server) < 4 \/ Len(server) > 253)
        /\ ~(Len(port) < 1 \/ Len(port) > 15)
        /\ ~(Len(secret) < 16 \/ Len(secret) > 511)
        /\ ~(conv.endptr = 0 \/ conv.endptr # Len(port)
             \/ conv.value < 1 \/ conv.value > PORT_MAX)
        /\ scan.ok
        /\ scan.valid_chars >= 16
        /\ scan.hex_chars >= 8

(***************************************************************************)
(* compute_hash: 64-bit words as 8 bytes, least significant byte first.    *)
(***************************************************************************)
\* 14695981039346656037 = 0xcbf29ce484222325
FNV_OFFSET == <<37, 35, 34, 132, 228, 156, 242, 203>>
\* 1099511628211 = 0x00000100000001b3
FNV_PRIME == <<179, 1, 0, 0, 0, 1, 0, 0>>

RECURSIVE Xor8(_, _, _)
Xor8(a, b, bits) ==
    IF bits = 0 THEN 0
    ELSE (IF (a % 2) # (b % 2) THEN 1 ELSE 0) + 2 * Xor8(a \div 2, b \div 2, bits - 1)

\* (uint64_t)(*p) for a plain (signed) char: bytes >= 0x80 sign-extend.
CharAsU64(c) ==
    [k \in 1..8 |-> IF k = 1 THEN c ELSE IF c >= 128 THEN 255 ELSE 0]

XorU64(h, w) == [k \in 1..8 |-> Xor8(h[k], w[k], 8)]

\* column k of the schoolbook product
MulColumn(h, p, k) ==
    LET Term(j) == h[j] * p[k - j + 1]
        RECURSIVE Sum(_)
        Sum(j) == IF j = 0 THEN 0 ELSE Term(j) + Sum(j - 1)
    IN  Sum(k)

RECURSIVE MulCarry(_, _, _, _)
MulCarry(h, p, k, carry) ==
    IF k > 8 THEN <<>>
    ELSE LET t == MulColumn(h, p, k) + carry
         IN  <<t % 256>> \o MulCarry(h, p, k + 1, t \div 256)

\* h * p modulo 2^64
MulU64(h, p) == MulCarry(h, p, 1, 0)

\* (FnvStepMutant: the multiplication before the xor, the FNV-1 order, to see
\* that C13 depends on the order)
FnvStepMutant(hash, c) == XorU64(MulU64(hash, FNV_PRIME), CharAsU64(c))
FnvStep(hash, c) == MulU64(XorU64(hash, CharAsU64(c)), FNV_PRIME)

\* for (i = first; i <= last; i++) hash = (hash ^ s[i]) * prime
FnvFold(hash, s, first, last) ==
    LET Step(h, i) == FnvStep(h, s[i])
    IN  ForLoop(Step, hash, first, last)

compute_hash(server, port, secret) ==
    LET h1 == FnvFold(FNV_OFFSET, server, 1, Len(server))
        h2 == FnvStep(h1, 58)
        h3 == FnvFold(h2, port, 1, Len(port))
        h4 == FnvStep(h3, 58)
    IN  FnvFold(h4, secret, 1, Min(SECRET_HASH_PREFIX, Len(secret)))

(***************************************************************************)
(* The record built from one match.                                        *)
(***************************************************************************)
\* "tg://proxy?server="
URL_SERVER == <<116, 103, 58, 47, 47, 112, 114, 111, 120, 121, 63, 115, 101, 114, 118, 101, 114, 61>>
\* "&port="
URL_PORT == <<38, 112, 111, 114, 116, 61>>
\* "&secret="
URL_SECRET == <<38, 115, 101, 99, 114, 101, 116, 61>>

\* snprintf(buf, size, ...): at most size - 1 bytes of the formatted text
snprintf(size, text) == SubSeq(text, 1, Min(size - 1, Len(text)))

connection_url_of(server, port, secret) ==
    snprintf(CONNECTION_URL_SIZE,
             URL_SERVER \o server \o URL_PORT \o port \o URL_SECRET \o secret)

\* "IPv4" when every byte of the server is a digit or '.', else "Domain"
type_of(server) ==
    IF \A k \in 1..Len(server) : IsDigit(server[k]) \/ server[k] = 46
    THEN "IPv4" ELSE "Domain"

\* the raw length test on the three capture groups
RawLengthsOk(m) ==
    /\ Len(m.server) > 0 /\ Len(m.server) < SERVER_SIZE
    /\ Len(m.port) > 0 /\ Len(m.port) < PORT_SIZE
    /\ Len(m.secret) >= 16 /\ Len(m.secret) < SECRET_SIZE

\* the three fields after copy, sanitize and prefix stripping
NormalizedFields(m) ==
    [server |-> StripPrefixes(sanitize_string(strncpy(m.server, Len(m.server))),
                              field_prefixes, 1),
     port   |-> StripPrefixes(sanitize_string(strncpy(m.port, Len(m.port))),
                              port_prefixes, 1),
     secret |-> StripPrefixes(sanitize_string(strncpy(m.secret, Len(m.secret))),
                              secret_prefixes, 1)]

NoRecord == [valid |-> FALSE]

\* The fields of new_proxy that the match decides, when the validation has
\* passed, or NoRecord.  (source is set from the URL being fetched; the two
\* timestamps, verified and speed_score are not part of the model.)
BuildRecord(m) ==
    IF ~RawLengthsOk(m) THEN NoRecord
    ELSE LET f == NormalizedFields(m) IN
         IF ~validate_proxy(f.server, f.port, f.secret) THEN NoRecord
         ELSE [server |-> f.server,
               port |-> f.port,
               secret |-> f.secret,
               connection_url |-> connection_url_of(f.server, f.port, f.secret),
               country |-> "UN",
               type |-> type_of(f.server),
               hash_value |-> compute_hash(f.server, f.port, f.secret),
               active |-> 1]

\* the fields of a slot of the calloc'ed store that no merge has written
ZeroFields ==
    [server |-> <<>>, port |-> <<>>, secret |-> <<>>, connection_url |-> <<>>,
     country |-> "", type |-> "",
     hash_value |-> <<0, 0, 0, 0, 0, 0, 0, 0>>, active |-> 0]

(***************************************************************************)
(* The environment: the source catalog and what a fetch can return.        *)
(*                                                                         *)
(* A document is what pcre2_match yields on it: for each pattern, in       *)
(* pattern order, the successive matches the loop obtains (each search     *)
(* starts one byte past the end of the previous match), each with the end  *)
(* offset of the whole match and the three captured groups.                *)
(***************************************************************************)
TARGET_URLS == <<"url0", "url1", "url2">>
\* 60 URLs in the source

\* the number of entries of PARSE_PATTERNS before the sentinel
PATTERN_COUNT == 2
\* 34 in the source

Rep(c, n) == [k \in 1..n |-> c]

\* The captured triples of the model's documents.
\* 1: "1.2.3.4" "443" "deadbeefdeadbeef"
\* 2: "Host: 1.2.3.4" "443" "deadbeefdeadbeef": normalizes to the triple of 1
\* 3: "example.com" "8080" "0123456789abcdef"
\* 4: "example.com" "0" "0123456789abcdef": rejected by validate_proxy
\* 5, 6: "a.bc" "80" and two secrets of 65 bytes that differ in the last
\*       byte only: two triples with one hash
\* 7: "5.6.7.8" "443" "deadbeefdeadbeef"
MATCHES ==
    LET a == [server |-> <<49, 46, 50, 46, 51, 46, 52>>, port |-> <<52, 52, 51>>,
              secret |-> <<100, 101, 97, 100, 98, 101, 101, 102,
                           100, 101, 97, 100, 98, 101, 101, 102>>]
        b == [server |-> <<101, 120, 97, 109, 112, 108, 101, 46, 99, 111, 109>>,
              port |-> <<56, 48, 56, 48>>,
              secret |-> <<48, 49, 50, 51, 52, 53, 54, 55,
                           56, 57, 97, 98, 99, 100, 101, 102>>]
        d == [server |-> <<97, 46, 98, 99>>, port |-> <<56, 48>>,
              secret |-> Rep(97, SECRET_HASH_PREFIX) \o <<49>>]
    IN  << a,
           [a EXCEPT !.server = <<72, 111, 115, 116, 58, 32, 49, 46, 50, 46, 51, 46, 52>>],
           b,
           [b EXCEPT !.port = <<48>>],
           d,
           [d EXCEPT !.secret = Rep(97, SECRET_HASH_PREFIX) \o <<50>>],
           [a EXCEPT !.server = <<53, 46, 54, 46, 55, 46, 56>>] >>

\* the record of each captured triple, computed once
BUILT == [n \in 1..Len(MATCHES) |-> BuildRecord(MATCHES[n])]

\* A ProxyRecord is held as [id, source]: id names its fields in BUILT (equal
\* fields, equal id; 0: none, or the zeroed slot), source is the URL fetched.
RecordId(built, n) ==
    IF built[n] = NoRecord THEN 0
    ELSE CHOOSE m \in 1..n : built[m] = built[n] /\ \A k \in 1..(m - 1) : built[k] # built[n]

RECORD_ID == [n \in 1..Len(MATCHES) |-> RecordId(BUILT, n)]

ZeroRecord == [id |-> 0, source |-> ""]

Fields(r) == IF r.id = 0 THEN ZeroFields ELSE BUILT[r.id]

\* a match: the end offset of the whole match and the captured triple
Match(n, end) == [ovector_end |-> end, triple |-> n]

DOC_SIZE == 32

\* page 1: triples 1, 2 | 3      page 2: triples 3, 4 | 1
\* page 3: triples 5, 6 | 7, 3   page 4: no match
DOCS ==
    << [size |-> DOC_SIZE,
        matches |-> << <<Match(1, 10), Match(2, 31)>>, <<Match(3, 31)>> >>],
       [size |-> DOC_SIZE,
        matches |-> << <<Match(3, 8), Match(4, 16)>>, <<Match(1, 31)>> >>],
       [size |-> DOC_SIZE,
        matches |-> << <<Match(5, 8), Match(6, 31)>>, <<Match(7, 12), Match(3, 30)>> >>],
       [size |-> 5,
        matches |-> << <<>>, <<>> >>] >>

\* the page an error status carries: no match in it
ERROR_PAGE == Len(DOCS)
\* the page each URL serves with status 200
PAGE_OF == <<1, 2, 3>>

(***************************************************************************)
(* The state of the program.                                               *)
(***************************************************************************)
VARIABLES
    program_active,  \* the atomic shutdown flag
    proxy_storage,   \* the store: slot index -> ProxyRecord; no slot once freed
    storage_mutex,   \* FREE, or <<slot>> of the worker thread holding it
    file_mutex,      \* FREE, or <<"main">>
    stats,           \* SystemStatistics, the counters
    worker,          \* workers[]: the thread each entry names, its position and locals
    main,            \* the main thread: its position and locals
    json_file,       \* proxies.json on disk
    txt_file,        \* proxies.txt on disk
    faults,          \* the failures the environment has produced so far
    ghost,           \* history, read by the properties only
    fn_in,           \* argument of the per-match function under check
    fn_out           \* its result

vars == <<program_active, proxy_storage, storage_mutex, file_mutex, stats, worker,
          main, json_file, txt_file, faults, ghost, fn_in, fn_out>>

\* The bounds of the exploration: the cycles the scheduler starts, and the
\* failures (allocation, thread creation, transport, file open) of a run.
MaxCycles == 2
MaxFaults == 1

FREE == <<>>

url_count == Len(TARGET_URLS)
UrlIndexes == 0..(url_count - 1)
Slots == 0..(MAX_THREAD_COUNT - 1)
StoreIndexes == 0..(PROXY_CAPACITY - 1)

\* The lines a thread prints through log_message, as their format strings.
MSG_PARSING == "Parsing content from %s (%zu bytes)"
MSG_NO_BATCH == "Memory allocation failed for proxy batch"
MSG_FOUND == "Found proxy: %s:%s (secret: %.32s...) from pattern %d"
MSG_PATTERN == "Pattern %d: Found %d proxies"
MSG_ADDED == "Added %d new proxies | Total: %d"
MSG_DISCOVERED == "Total proxies discovered from %s: %d"
MSG_FETCHING == "Fetching: %s"
MSG_SUCCESS == "Success: %s (%zu bytes, %.2f seconds)"
MSG_HTTP == "HTTP %ld: %s"
MSG_CURL_ERROR == "CURL error %d: %s"
MSG_SAVED_JSON == "Saved %d proxies to proxies.json"
MSG_SAVED_TXT == "Saved %d proxies to proxies.txt"

\* a workers[] entry that names no live thread, and the locals of a thread
\* (log: the lines the thread has printed in its fetch)
NoThread ==
    [pc |-> "idle", url |-> 0, content |-> 0, pattern_index |-> 0,
     match_index |-> 0, current_offset |-> 0, discovered |-> <<>>,
     pattern_matches |-> 0,
     i |-> 0, current_total |-> 0, added_count |-> 0, log |-> <<>>]

Terminated == [NoThread EXCEPT !.pc = "terminated"]

NoFile ==
    [written |-> FALSE, total_proxies |-> 0, unique_proxies |-> 0,
     sources_processed |-> 0, proxies |-> <<>>]

InitStats ==
    [total_proxies |-> 0, unique_proxies |-> 0, successful_proxies |-> 0,
     total_requests |-> 0, network_errors |-> 0, total_bytes |-> ZeroU32,
     processed_urls |-> 0, active_workers |-> 0, completed_cycles |-> 0,
     last_cycle_proxies |-> 0]

InitMain ==
    [pc |-> "startup", cycle_number |-> 0, initial_proxy_count |-> 0,
     workers_launched |-> 0, current_url_index |-> 0, batch_size |-> 0,
     i |-> 0, wait_count |-> 0, new_proxies |-> 0,
     save_return |-> "", current_total |-> 0, root |-> <<>>,
     json_opened |-> FALSE, txt_opened |-> FALSE, log |-> <<>>]

InitGhost ==
    [shutdown_requested |-> FALSE,
     final_checkpoint |-> FALSE,
     dispatched |-> [u \in UrlIndexes |-> 0],
     skipped |-> [u \in UrlIndexes |-> 0],
     merged_cycle |-> [u \in UrlIndexes |-> 0],
     oob_store |-> FALSE,
     oob_workers |-> FALSE,
     dropped |-> [s \in Slots |-> FALSE],
     open_failed |-> FALSE,
     late_merge |-> FALSE]

InitProgram ==
    /\ program_active = 1
    /\ proxy_storage = [i \in StoreIndexes |-> ZeroRecord]
    /\ storage_mutex = FREE
    /\ file_mutex = FREE
    /\ stats = InitStats
    /\ worker = [s \in Slots |-> NoThread]
    /\ main = InitMain
    /\ json_file = NoFile
    /\ txt_file = NoFile
    /\ faults = 0
    /\ ghost = InitGhost

Init ==
    /\ InitProgram
    /\ fn_in = <<>>
    /\ fn_out = <<>>

\* a failure of the environment, within the bound
Fault ==
    /\ faults < MaxFaults
    /\ faults' = faults + 1

Running == main.pc \notin {"exit", "exit_failure"}

(***************************************************************************)
(* handle_interrupt: SIGINT or SIGTERM, at any moment of the run.          *)
(***************************************************************************)
handle_interrupt ==
    /\ Running
    /\ program_active' = 0
    /\ ghost' = [ghost EXCEPT !.shutdown_requested = TRUE]
    /\ UNCHANGED <<proxy_storage, storage_mutex, file_mutex, stats, worker, main,
                   json_file, txt_file, faults, fn_in, fn_out>>

(***************************************************************************)
(* url_worker and fetch_url_content, one thread per workers[] entry.       *)
(***************************************************************************)
\* if (atomic_load(&program_active) && task && task->url)
WorkerStart(s) ==
    /\ worker[s].pc = "start"
    /\ worker' = [worker EXCEPT ![s].pc =
                      IF program_active = 1 THEN "fetch_entry" ELSE "worker_exit"]
    /\ UNCHANGED <<program_active, proxy_storage, storage_mutex, file_mutex, stats,
                   main, json_file, txt_file, faults, ghost, fn_in, fn_out>>

\* the test at the head of fetch_url_content
\* (FetchCheckMutant: the test left out, to see that C7 depends on it)
FetchCheckMutant(flag) == TRUE
FetchCheck(flag) == flag # 0

\* fetch_url_content up to the call of curl_easy_perform
FetchReturn(s) ==
    /\ worker[s].pc = "fetch_entry"
    /\ ~FetchCheck(program_active)
    /\ worker' = [worker EXCEPT ![s].pc = "worker_exit"]
    /\ UNCHANGED <<program_active, proxy_storage, storage_mutex, file_mutex, stats,
                   main, json_file, txt_file, faults, ghost, fn_in, fn_out>>

\* setup_curl_handle returns NULL
FetchNoHandle(s) ==
    /\ worker[s].pc = "fetch_entry"
    /\ FetchCheck(program_active)
    /\ Fault
    /\ stats' = [stats EXCEPT !.network_errors = @ + 1]
    /\ worker' = [worker EXCEPT ![s].pc = "worker_exit"]
    /\ UNCHANGED <<program_active, proxy_storage, storage_mutex, file_mutex,
                   main, json_file, txt_file, ghost, fn_in, fn_out>>

\* malloc of the content buffer fails
FetchNoBuffer(s) ==
    /\ worker[s].pc = "fetch_entry"
    /\ FetchCheck(program_active)
    /\ Fault
    /\ worker' = [worker EXCEPT ![s].pc = "worker_exit"]
    /\ UNCHANGED <<program_active, proxy_storage, storage_mutex, file_mutex, stats,
                   main, json_file, txt_file, ghost, fn_in, fn_out>>

FetchSetup(s) ==
    /\ worker[s].pc = "fetch_entry"
    /\ FetchCheck(program_active)
    /\ stats' = [stats EXCEPT !.total_requests = @ + 1]
    /\ worker' = [worker EXCEPT ![s].pc = "perform",
                                ![s].log = Append(@, MSG_FETCHING)]
    /\ UNCHANGED <<program_active, proxy_storage, storage_mutex, file_mutex,
                   main, json_file, txt_file, faults, ghost, fn_in, fn_out>>

\* curl_easy_perform fails, or write_callback has refused the data (the flag
\* is down, or realloc failed), or the body is empty: the CURL error branch
PerformError(s) ==
    /\ worker[s].pc = "perform"
    /\ program_active = 0 \/ faults < MaxFaults
    /\ faults' = IF program_active = 0 THEN faults ELSE faults + 1
    /\ stats' = [stats EXCEPT !.network_errors = @ + 1]
    /\ worker' = [worker EXCEPT ![s].pc = "worker_exit",
                                ![s].log = Append(@, MSG_CURL_ERROR)]
    /\ UNCHANGED <<program_active, proxy_storage, storage_mutex, file_mutex,
                   main, json_file, txt_file, ghost, fn_in, fn_out>>

\* (PerformStatusMutant: processed_urls counted after the test of the status
\* instead of in its branch, to see that C16 depends on where it is counted)
PerformStatusMutant(s) ==
    /\ worker[s].pc = "perform"
    /\ program_active = 1
    /\ DOCS[ERROR_PAGE].size > 0
    /\ Fault
    /\ stats' = [stats EXCEPT !.network_errors = @ + 1, !.processed_urls = @ + 1]
    /\ worker' = [worker EXCEPT ![s].pc = "worker_exit",
                                ![s].log = Append(@, MSG_HTTP)]
    /\ UNCHANGED <<program_active, proxy_storage, storage_mutex, file_mutex,
                   main, json_file, txt_file, ghost, fn_in, fn_out>>

\* the transfer delivers ERROR_PAGE with a status other than 200
PerformStatus(s) ==
    /\ worker[s].pc = "perform"
    /\ program_active = 1
    /\ DOCS[ERROR_PAGE].size > 0
    /\ Fault
    /\ stats' = [stats EXCEPT !.network_errors = @ + 1]
    /\ worker' = [worker EXCEPT ![s].pc = "worker_exit",
                                ![s].log = Append(@, MSG_HTTP)]
    /\ UNCHANGED <<program_active, proxy_storage, storage_mutex, file_mutex,
                   main, json_file, txt_file, ghost, fn_in, fn_out>>

\* the transfer delivers the page of the URL with status 200; write_callback
\* accepts data only while the flag is up
PerformOk(s) ==
    /\ worker[s].pc = "perform"
    /\ program_active = 1
    /\ LET page == PAGE_OF[worker[s].url + 1] IN
       /\ DOCS[page].size > 0
       /\ stats' = [stats EXCEPT !.total_bytes = AddU32(@, DOCS[page].size)]
       /\ worker' = [worker EXCEPT ![s].pc = "extract_enter", ![s].content = page]
    /\ UNCHANGED <<program_active, proxy_storage, storage_mutex, file_mutex,
                   main, json_file, txt_file, faults, ghost, fn_in, fn_out>>

(***************************************************************************)
(* extract_proxies_from_content: the pattern loop and the match loop fill  *)
(* the thread's batch; the merge copies it to the store under the mutex.   *)
(***************************************************************************)
\* the entry test; content is not NULL and content_length > 0 at the call
ExtractReturn(s) ==
    /\ worker[s].pc = "extract_enter"
    /\ program_active = 0
    /\ worker' = [worker EXCEPT ![s].pc = "extract_exit"]
    /\ UNCHANGED <<program_active, proxy_storage, storage_mutex, file_mutex, stats,
                   main, json_file, txt_file, faults, ghost, fn_in, fn_out>>

\* malloc of discovered_proxies fails
ExtractNoBatch(s) ==
    /\ worker[s].pc = "extract_enter"
    /\ program_active # 0
    /\ Fault
    /\ worker' = [worker EXCEPT ![s].pc = "extract_exit",
                                ![s].log = @ \o <<MSG_PARSING, MSG_NO_BATCH>>]
    /\ UNCHANGED <<program_active, proxy_storage, storage_mutex, file_mutex, stats,
                   main, json_file, txt_file, ghost, fn_in, fn_out>>

ExtractEnter(s) ==
    /\ worker[s].pc = "extract_enter"
    /\ program_active # 0
    /\ worker' = [worker EXCEPT ![s].pc = "pattern", ![s].pattern_index = 0,
                                ![s].discovered = <<>>,
                                ![s].log = Append(@, MSG_PARSING)]
    /\ UNCHANGED <<program_active, proxy_storage, storage_mutex, file_mutex, stats,
                   main, json_file, txt_file, faults, ghost, fn_in, fn_out>>

\* the head of the pattern loop
PatternHead(s) ==
    /\ worker[s].pc = "pattern"
    /\ worker' = [worker EXCEPT ![s] =
          IF @.pattern_index < PATTERN_COUNT /\ program_active # 0
          THEN [@ EXCEPT !.pc = "match", !.current_offset = 0, !.match_index = 0]
          ELSE [@ EXCEPT !.pc = "merge_entry", !.pattern_index = 0,
                         !.current_offset = 0, !.match_index = 0]]
    /\ UNCHANGED <<program_active, proxy_storage, storage_mutex, file_mutex, stats,
                   main, json_file, txt_file, faults, ghost, fn_in, fn_out>>

\* the scan of the batch for a hash
\* (DuplicateInBatchMutant: no scan, to see that C25 depends on it)
DuplicateInBatchMutant(discovered, hash_value) == FALSE
DuplicateInBatch(discovered, hash_value) ==
    \E i \in 1..Len(discovered) : Fields(discovered[i]).hash_value = hash_value

\* the batch after a match has been handled: new_proxy is the record of the
\* match (id 0: the lengths or validate_proxy have rejected it)
BatchAfter(discovered, new_proxy) ==
    IF new_proxy.id = 0 THEN discovered
    ELSE IF DuplicateInBatch(discovered, Fields(new_proxy).hash_value) THEN discovered
    ELSE IF Len(discovered) < PROXY_BATCH_SIZE THEN Append(discovered, new_proxy)
    ELSE discovered

\* the thread leaves the match loop for the next pattern: the line of the
\* pattern's matches
MatchLeave(t) ==
    [t EXCEPT !.pc = "pattern", !.pattern_index = @ + 1,
              !.current_offset = 0, !.match_index = 0,
              !.pattern_matches = 0,
              !.log = IF t.pattern_matches > 0 THEN Append(@, MSG_PATTERN) ELSE @]

\* the thread after a match has been handled and has left the batch as
\* discovered: a record appended is counted and logged
MatchHandled(t, discovered) ==
    IF Len(discovered) > Len(t.discovered)
    THEN [t EXCEPT !.discovered = discovered,
                   !.pattern_matches = @ + 1,
                   !.log = Append(@, MSG_FOUND)]
    ELSE t

\* (MatchFoundMutant: the next search starting at the end of the match, to
\* see that C24 depends on the byte added)
MatchFoundMutant(t, content_length, match, discovered) ==
    IF match.ovector_end >= content_length
    THEN MatchLeave(MatchHandled(t, discovered))
    ELSE [MatchHandled(t, discovered) EXCEPT
                   !.match_index = @ + 1,
                   !.current_offset = match.ovector_end]

\* the thread after pcre2_match has found match: the record, the next offset
MatchFound(t, content_length, match, discovered) ==
    IF match.ovector_end + 1 >= content_length
    THEN MatchLeave(MatchHandled(t, discovered))
    ELSE [MatchHandled(t, discovered) EXCEPT
                   !.match_index = @ + 1,
                   !.current_offset = match.ovector_end + 1]

\* one turn of the match loop of thread t over the matches found of the
\* pattern: its test, pcre2_match from current_offset, the match
MatchTurn(t, content_length, found, flag) ==
    IF ~(t.current_offset < content_length
           /\ Len(t.discovered) < PROXY_BATCH_SIZE
           /\ flag # 0)
    THEN MatchLeave(t)
    ELSE IF t.match_index >= Len(found)
    THEN MatchLeave(t)
    ELSE MatchFound(t, content_length, found[t.match_index + 1],
                    BatchAfter(t.discovered,
                               [id |-> RECORD_ID[found[t.match_index + 1].triple],
                                source |-> TARGET_URLS[t.url + 1]]))

\* the match loop of thread t stops at a full batch while the text holds a
\* further match of the pattern whose record is valid and new to the batch
BatchDrop(t, content_length, found, flag) ==
    /\ t.current_offset < content_length
    /\ flag # 0
    /\ ~(Len(t.discovered) < PROXY_BATCH_SIZE)
    /\ t.match_index < Len(found)
    /\ RECORD_ID[found[t.match_index + 1].triple] # 0
    /\ ~DuplicateInBatch(t.discovered,
                         BUILT[RECORD_ID[found[t.match_index + 1].triple]].hash_value)

MatchStep(s) ==
    /\ worker[s].pc = "match"
    /\ worker' = [worker EXCEPT ![s] =
          MatchTurn(@, DOCS[@.content].size,
                    DOCS[@.content].matches[@.pattern_index + 1], program_active)]
    /\ ghost' = [ghost EXCEPT !.dropped[s] =
          @ \/ BatchDrop(worker[s], DOCS[worker[s].content].size,
                         DOCS[worker[s].content].matches[worker[s].pattern_index + 1],
                         program_active)]
    /\ UNCHANGED <<program_active, proxy_storage, storage_mutex, file_mutex, stats,
                   main, json_file, txt_file, faults, fn_in, fn_out>>

\* the value current_total starts from
\* (MergeStartMutant: the count not loaded, to see that C4 depends on it)
MergeStartMutant(total_proxies) == 0
MergeStart(total_proxies) == total_proxies

\* the capacity test of the merge loop
\* (MergeRoomMutant: no capacity test, to see that C2 depends on it)
MergeRoomMutant(current_total) == TRUE
MergeRoom(current_total) == current_total < PROXY_CAPACITY

\* the slot the merge writes a new record to
\* (MergeSlotMutant: the slot before it, to see that C3 depends on it)
MergeSlotMutant(current_total) == current_total - 1
MergeSlot(current_total) == current_total

\* the scan of the store for the hash of one record of the batch
\* (DuplicateInStoreMutant: no scan, to see that C1 depends on it)
DuplicateInStoreMutant(storage, current_total, proxy) == FALSE
DuplicateInStore(storage, current_total, proxy) ==
    \E j \in 0..(current_total - 1) :
        /\ j \in DOMAIN storage
        /\ Fields(storage[j]).hash_value = Fields(proxy).hash_value

\* pthread_mutex_lock returns when no thread holds the mutex
\* (LockGrantedMutant: a lock that excludes nobody, to see that C20 depends
\* on the critical section)
LockGrantedMutant(mutex) == TRUE
LockGranted(mutex) == mutex = FREE

\* if (discovery_count > 0) pthread_mutex_lock(&storage_mutex), and the load
\* of total_proxies
MergeEntry(s) ==
    /\ worker[s].pc = "merge_entry"
    /\ IF Len(worker[s].discovered) > 0
       THEN /\ LockGranted(storage_mutex)
            /\ storage_mutex' = <<s>>
            /\ worker' = [worker EXCEPT ![s].pc = "merge_loop", ![s].i = 0,
                              ![s].added_count = 0,
                              ![s].current_total = MergeStart(stats.total_proxies)]
       ELSE /\ worker' = [worker EXCEPT ![s].pc = "extract_exit"]
            /\ UNCHANGED storage_mutex
    /\ UNCHANGED <<program_active, proxy_storage, file_mutex, stats,
                   main, json_file, txt_file, faults, ghost, fn_in, fn_out>>

\* the merge loop of thread t stops at the capacity while its batch holds
\* a further record that the store does not hold
StoreDrop(t, storage) ==
    /\ t.i < Len(t.discovered)
    /\ ~MergeRoom(t.current_total)
    /\ \E k \in (t.i + 1)..Len(t.discovered) :
          ~DuplicateInStore(storage, t.current_total, t.discovered[k])

\* atomic_fetch_add(&stats.unique_proxies, 1) for a record stored
\* (CountUniqueMutant: the counter left as it is, to see that C31 depends
\* on the increment)
CountUniqueMutant(unique_proxies) == unique_proxies
CountUnique(unique_proxies) == unique_proxies + 1

\* one turn of the merge loop
MergeStep(s) ==
    /\ worker[s].pc = "merge_loop"
    /\ LET t == worker[s] IN
       IF t.i < Len(t.discovered) /\ MergeRoom(t.current_total)
       THEN IF DuplicateInStore(proxy_storage, t.current_total, t.discovered[t.i + 1])
            THEN /\ worker' = [worker EXCEPT ![s].i = @ + 1]
                 /\ UNCHANGED <<proxy_storage, stats, ghost>>
            ELSE /\ proxy_storage' =
                      IF MergeSlot(t.current_total) \in DOMAIN proxy_storage
                      THEN [proxy_storage EXCEPT
                               ![MergeSlot(t.current_total)] = t.discovered[t.i + 1]]
                      ELSE proxy_storage
                 /\ ghost' = [ghost EXCEPT
                                  !.oob_store =
                                      @ \/ MergeSlot(t.current_total) \notin DOMAIN proxy_storage,
                                  !.late_merge = @ \/ ghost.shutdown_requested]
                 /\ stats' = [stats EXCEPT !.unique_proxies = CountUnique(@),
                                           !.successful_proxies = @ + 1]
                 /\ worker' = [worker EXCEPT ![s].i = @ + 1,
                                             ![s].current_total = @ + 1,
                                             ![s].added_count = @ + 1]
       ELSE /\ worker' = [worker EXCEPT ![s].pc = "merge_publish"]
            /\ ghost' = [ghost EXCEPT !.dropped[s] = @ \/ StoreDrop(t, proxy_storage)]
            /\ UNCHANGED <<proxy_storage, stats>>
    /\ UNCHANGED <<program_active, storage_mutex, file_mutex,
                   main, json_file, txt_file, faults, fn_in, fn_out>>

\* the value stored to total_proxies at the end of the merge
\* (PublishedCountMutant: a count that covers the slot the merge would write
\* next, to see that C19 depends on the count following the writes)
PublishedCountMutant(current_total) == Min(current_total + 1, PROXY_CAPACITY)
PublishedCount(current_total) == current_total

\* the stores of total_proxies and last_cycle_proxies, the unlock, the line
\* of the merge
MergePublish(s) ==
    /\ worker[s].pc = "merge_publish"
    /\ stats' = [stats EXCEPT !.total_proxies = PublishedCount(worker[s].current_total),
                              !.last_cycle_proxies = @ + worker[s].added_count]
    /\ storage_mutex' = FREE
    /\ ghost' = [ghost EXCEPT !.merged_cycle[worker[s].url] =
                     IF @ = 0 THEN main.cycle_number ELSE @]
    /\ worker' = [worker EXCEPT ![s].pc = "extract_exit", ![s].i = 0,
                                ![s].current_total = 0, ![s].added_count = 0,
                                ![s].log = Append(@, MSG_ADDED)]
    /\ UNCHANGED <<program_active, proxy_storage, file_mutex,
                   main, json_file, txt_file, faults, fn_in, fn_out>>

\* the end of extract_proxies_from_content (its last line when
\* total_discovered > 0) and, back in fetch_url_content, processed_urls and
\* the line of the success
ExtractExit(s) ==
    /\ worker[s].pc = "extract_exit"
    /\ stats' = [stats EXCEPT !.processed_urls = @ + 1]
    /\ worker' = [worker EXCEPT ![s].pc = "worker_exit",
                                ![s].log = IF Len(worker[s].discovered) > 0
                                           THEN @ \o <<MSG_DISCOVERED, MSG_SUCCESS>>
                                           ELSE Append(@, MSG_SUCCESS)]
    /\ UNCHANGED <<program_active, proxy_storage, storage_mutex, file_mutex,
                   main, json_file, txt_file, faults, ghost, fn_in, fn_out>>

\* the end of url_worker
WorkerExit(s) ==
    /\ worker[s].pc = "worker_exit"
    /\ stats' = [stats EXCEPT !.active_workers = @ - 1]
    /\ worker' = [worker EXCEPT ![s] = Terminated]
    /\ ghost' = [ghost EXCEPT !.dropped[s] = FALSE]
    /\ UNCHANGED <<program_active, proxy_storage, storage_mutex, file_mutex,
                   main, json_file, txt_file, faults, fn_in, fn_out>>

(***************************************************************************)
(* save_proxies_to_json.  A file on disk holds, besides its header         *)
(* counts, the store records its entries were written from; JsonObject and *)
(* TxtLine give the text of an entry.                                      *)
(***************************************************************************)
HexDigit(d) == IF d < 10 THEN 48 + d ELSE 87 + d

\* "%016llx" of a 64-bit word
HexOf(word) ==
    [k \in 1..16 |->
        LET byte == word[8 - ((k - 1) \div 2)]
        IN  HexDigit(IF k % 2 = 1 THEN byte \div 16 ELSE byte % 16)]

\* the object appended to proxies_array for one record
JsonObject(r) ==
    [server |-> Fields(r).server,
     port |-> Fields(r).port,
     secret |-> Fields(r).secret,
     url |-> Fields(r).connection_url,
     source |-> r.source,
     type |-> Fields(r).type,
     country |-> Fields(r).country,
     hash |-> HexOf(Fields(r).hash_value)]

\* the line printed for one record
TxtLine(r) == Fields(r).connection_url

\* the records a loop "for (i = 0; i < bound; i++) if (proxy_storage[i].active)"
\* visits, in the order of the visits
ActiveRecords(storage, bound) ==
    LET Step(acc, i) ==
            IF i \in DOMAIN storage /\ Fields(storage[i]).active # 0
            THEN Append(acc, storage[i]) ELSE acc
    IN  ForLoop(Step, <<>>, 0, bound - 1)

\* the bound of the loop that prints the lines
\* (TxtLoopBoundMutant: one record short, to see that C9 depends on it)
TxtLoopBoundMutant(current_total) == current_total - 1
TxtLoopBound(current_total) == current_total

\* the lock, the sample of total_proxies, json_object() returns NULL
SaveNoRoot ==
    /\ main.pc = "save_begin"
    /\ file_mutex = FREE
    /\ Fault
    /\ main' = [main EXCEPT !.pc = "save_done",
                            !.current_total = stats.total_proxies]
    /\ UNCHANGED <<program_active, proxy_storage, storage_mutex, file_mutex, stats,
                   worker, json_file, txt_file, ghost, fn_in, fn_out>>

\* the lock, the sample of total_proxies, the root object with its array
SaveBegin ==
    /\ main.pc = "save_begin"
    /\ file_mutex = FREE
    /\ file_mutex' = <<"main">>
    /\ main' = [main EXCEPT
                   !.pc = "save_json",
                   !.current_total = stats.total_proxies,
                   !.root = [NoFile EXCEPT
                       !.written = TRUE,
                       !.total_proxies = stats.total_proxies,
                       !.unique_proxies = stats.unique_proxies,
                       !.sources_processed = stats.processed_urls,
                       !.proxies = ActiveRecords(proxy_storage, stats.total_proxies)]]
    /\ UNCHANGED <<program_active, proxy_storage, storage_mutex, stats,
                   worker, json_file, txt_file, faults, ghost, fn_in, fn_out>>

\* fopen("proxies.json", "w") returns NULL
SaveJsonNotOpened ==
    /\ main.pc = "save_json"
    /\ Fault
    /\ main' = [main EXCEPT !.pc = "save_txt", !.root = <<>>, !.json_opened = FALSE]
    /\ ghost' = [ghost EXCEPT !.open_failed = TRUE]
    /\ UNCHANGED <<program_active, proxy_storage, storage_mutex, file_mutex, stats,
                   worker, json_file, txt_file, fn_in, fn_out>>

SaveJson ==
    /\ main.pc = "save_json"
    /\ json_file' = main.root
    /\ main' = [main EXCEPT !.pc = "save_txt", !.root = <<>>, !.json_opened = TRUE,
                            !.log = Append(@, MSG_SAVED_JSON)]
    /\ UNCHANGED <<program_active, proxy_storage, storage_mutex, file_mutex, stats,
                   worker, txt_file, faults, ghost, fn_in, fn_out>>

\* fopen("proxies.txt", "w") returns NULL; the unlock
SaveTxtNotOpened ==
    /\ main.pc = "save_txt"
    /\ Fault
    /\ file_mutex' = FREE
    /\ main' = [main EXCEPT !.pc = "save_done", !.txt_opened = FALSE]
    /\ ghost' = [ghost EXCEPT !.open_failed = TRUE]
    /\ UNCHANGED <<program_active, proxy_storage, storage_mutex, stats,
                   worker, json_file, txt_file, fn_in, fn_out>>

SaveTxt ==
    /\ main.pc = "save_txt"
    /\ txt_file' = [NoFile EXCEPT
           !.written = TRUE,
           !.total_proxies = main.current_total,
           !.sources_processed = stats.processed_urls,
           !.unique_proxies = stats.unique_proxies,
           !.proxies = ActiveRecords(proxy_storage, TxtLoopBound(main.current_total))]
    /\ file_mutex' = FREE
    /\ main' = [main EXCEPT !.pc = "save_done", !.txt_opened = TRUE,
                            !.log = Append(@, MSG_SAVED_TXT)]
    /\ UNCHANGED <<program_active, proxy_storage, storage_mutex, stats,
                   worker, json_file, faults, ghost, fn_in, fn_out>>

\* the return to the caller
SaveReturn ==
    /\ main.pc = "save_done"
    /\ main' = [main EXCEPT !.pc = main.save_return, !.save_return = "",
                            !.current_total = 0,
                            !.json_opened = FALSE, !.txt_opened = FALSE,
                            !.log = <<>>]
    /\ ghost' = [ghost EXCEPT !.final_checkpoint =
                     @ \/ (main.save_return = "teardown" /\ ghost.shutdown_requested),
                              !.open_failed = FALSE]
    /\ UNCHANGED <<program_active, proxy_storage, storage_mutex, file_mutex, stats,
                   worker, json_file, txt_file, faults, fn_in, fn_out>>

(***************************************************************************)
(* main, autonomous_operation and cleanup_resources: the main thread.      *)
(***************************************************************************)
\* (StartupFailureMutant: the failure branch running the cleanup, with its
\* checkpoint, before it returns 1, to see that C18 depends on the bare return)
StartupFailureMutant ==
    /\ main.pc = "startup"
    /\ main' = [main EXCEPT !.pc = "save_begin", !.save_return = "exit_failure"]
    /\ UNCHANGED <<program_active, proxy_storage, storage_mutex, file_mutex, stats,
                   worker, json_file, txt_file, faults, ghost, fn_in, fn_out>>

\* main: curl_global_init, the calloc of the store or a pthread_mutex_init
\* fails: return 1
StartupFailure ==
    /\ main.pc = "startup"
    /\ main' = [main EXCEPT !.pc = "exit_failure"]
    /\ UNCHANGED <<program_active, proxy_storage, storage_mutex, file_mutex, stats,
                   worker, json_file, txt_file, faults, ghost, fn_in, fn_out>>

\* main: the handlers are installed, the store is allocated;
\* autonomous_operation starts with a checkpoint
Startup ==
    /\ main.pc = "startup"
    /\ main' = [main EXCEPT !.pc = "save_begin", !.save_return = "cycle_head"]
    /\ UNCHANGED <<program_active, proxy_storage, storage_mutex, file_mutex, stats,
                   worker, json_file, txt_file, faults, ghost, fn_in, fn_out>>

\* the test of the cycle loop
\* (CycleLoopTestMutant: while (1), to see that C22 depends on the test)
CycleLoopTestMutant(flag) == TRUE
CycleLoopTest(flag) == flag # 0

\* the store size the cycle delta is taken from
\* (InitialProxyCountMutant: the size not loaded at the start of the cycle,
\* to see that C23 depends on it)
InitialProxyCountMutant(total_proxies) == 0
InitialProxyCount(total_proxies) == total_proxies

\* while (atomic_load(&program_active)): a cycle starts
CycleStart ==
    /\ main.pc = "cycle_head"
    /\ CycleLoopTest(program_active)
    /\ main.cycle_number < MaxCycles
    /\ main' = [main EXCEPT !.pc = "batch_head",
                            !.cycle_number = @ + 1,
                            !.initial_proxy_count = InitialProxyCount(stats.total_proxies),
                            !.workers_launched = 0,
                            !.current_url_index = 0,
                            !.new_proxies = 0]
    /\ stats' = [stats EXCEPT !.completed_cycles = main.cycle_number + 1,
                              !.last_cycle_proxies = 0]
    /\ ghost' = [ghost EXCEPT !.dispatched = [u \in UrlIndexes |-> 0],
                              !.skipped = [u \in UrlIndexes |-> 0]]
    /\ UNCHANGED <<program_active, proxy_storage, storage_mutex, file_mutex,
                   worker, json_file, txt_file, faults, fn_in, fn_out>>

\* the cycle loop ends: autonomous_operation returns, cleanup_resources
\* clears the flag
CycleLoopEnd ==
    /\ main.pc = "cycle_head"
    /\ ~CycleLoopTest(program_active)
    /\ program_active' = 0
    /\ main' = [main EXCEPT !.pc = "drain", !.wait_count = 0,
                            !.initial_proxy_count = 0, !.new_proxies = 0]
    /\ UNCHANGED <<proxy_storage, storage_mutex, file_mutex, stats,
                   worker, json_file, txt_file, faults, ghost, fn_in, fn_out>>

\* the size of the next batch
\* (BatchSizeMutant: no ceiling, to see that C6 depends on it)
BatchSizeMutant(remaining) == remaining
BatchSize(remaining) == Min(CONCURRENT_DOWNLOADS, remaining)

\* (BatchHeadMutant: a batch loop that does not read the flag, to see that
\* C21 depends on the test)
BatchHeadMutant ==
    /\ main.pc = "batch_head"
    /\ main' = IF main.current_url_index < url_count
               THEN [main EXCEPT !.pc = "launch", !.i = 0,
                        !.batch_size = BatchSize(url_count - main.current_url_index)]
               ELSE [main EXCEPT !.pc = "interval", !.batch_size = 0]
    /\ UNCHANGED <<program_active, proxy_storage, storage_mutex, file_mutex, stats,
                   worker, json_file, txt_file, faults, ghost, fn_in, fn_out>>

\* the head of the batch loop
BatchHead ==
    /\ main.pc = "batch_head"
    /\ main' = IF main.current_url_index < url_count /\ program_active # 0
               THEN [main EXCEPT !.pc = "launch", !.i = 0,
                        !.batch_size = BatchSize(url_count - main.current_url_index)]
               ELSE [main EXCEPT !.pc = "interval", !.batch_size = 0]
    /\ UNCHANGED <<program_active, proxy_storage, storage_mutex, file_mutex, stats,
                   worker, json_file, txt_file, faults, ghost, fn_in, fn_out>>

\* the index of the URL the launch loop turns to next
\* (NextUrlMutant: every other URL, to see that C5 depends on it)
NextUrlMutant(current_url_index) == current_url_index + 2
NextUrl(current_url_index) == current_url_index + 1

LaunchTest == main.i < main.batch_size /\ main.current_url_index < url_count

\* malloc or strdup of the task fails, or pthread_create fails (active_workers
\* is raised and lowered again): continue
LaunchSkip ==
    /\ main.pc = "launch"
    /\ LaunchTest
    /\ Fault
    /\ main' = [main EXCEPT !.i = @ + 1,
                            !.current_url_index = NextUrl(@)]
    /\ ghost' = [ghost EXCEPT !.skipped[main.current_url_index] = @ + 1]
    /\ UNCHANGED <<program_active, proxy_storage, storage_mutex, file_mutex, stats,
                   worker, json_file, txt_file, fn_in, fn_out>>

\* the task is built, active_workers raised, the thread created
Launch ==
    /\ main.pc = "launch"
    /\ LaunchTest
    /\ stats' = [stats EXCEPT !.active_workers = @ + 1]
    /\ worker' = IF main.workers_launched \in Slots
                 THEN [worker EXCEPT ![main.workers_launched] =
                          [NoThread EXCEPT !.pc = "start", !.url = main.current_url_index]]
                 ELSE worker
    /\ main' = [main EXCEPT !.i = @ + 1,
                            !.current_url_index = NextUrl(@),
                            !.workers_launched = @ + 1]
    /\ ghost' = [ghost EXCEPT !.dispatched[main.current_url_index] = @ + 1,
                              !.oob_workers = @ \/ main.workers_launched \notin Slots]
    /\ UNCHANGED <<program_active, proxy_storage, storage_mutex, file_mutex,
                   json_file, txt_file, faults, fn_in, fn_out>>

LaunchDone ==
    /\ main.pc = "launch"
    /\ ~LaunchTest
    /\ main' = [main EXCEPT !.pc = "join", !.i = 0, !.batch_size = 0]
    /\ UNCHANGED <<program_active, proxy_storage, storage_mutex, file_mutex, stats,
                   worker, json_file, txt_file, faults, ghost, fn_in, fn_out>>

\* pthread_join returns once the thread has terminated
\* (JoinReadyMutant: a join that does not wait, to see that C8 depends on it)
JoinReadyMutant(thread) == TRUE
JoinReady(thread) == thread.pc = "terminated"

\* the test of the join loop
\* (JoinLoopTestMutant: the last thread of the batch not joined, to see
\* that C32 depends on every thread being joined)
JoinLoopTestMutant(i, workers_launched) == i < workers_launched - 1
JoinLoopTest(i, workers_launched) == i < workers_launched

JoinOne ==
    /\ main.pc = "join"
    /\ JoinLoopTest(main.i, main.workers_launched)
    /\ main.i \in Slots => JoinReady(worker[main.i])
    /\ worker' = IF main.i \in Slots /\ worker[main.i].pc = "terminated"
                 THEN [worker EXCEPT ![main.i] = NoThread]
                 ELSE worker
    /\ main' = [main EXCEPT !.i = @ + 1]
    /\ UNCHANGED <<program_active, proxy_storage, storage_mutex, file_mutex, stats,
                   json_file, txt_file, faults, ghost, fn_in, fn_out>>

\* workers_launched = 0; if (!atomic_load(&program_active)) break
JoinDone ==
    /\ main.pc = "join"
    /\ ~JoinLoopTest(main.i, main.workers_launched)
    /\ main' = [main EXCEPT !.pc = IF program_active = 0 THEN "interval" ELSE "batch_head",
                            !.i = 0, !.workers_launched = 0]
    /\ UNCHANGED <<program_active, proxy_storage, storage_mutex, file_mutex, stats,
                   worker, json_file, txt_file, faults, ghost, fn_in, fn_out>>

\* SAVE_INTERVAL has passed since the last checkpoint
IntervalSave ==
    /\ main.pc = "interval"
    /\ main' = [main EXCEPT !.pc = "save_begin", !.save_return = "cycle_tail",
                            !.current_url_index = 0]
    /\ UNCHANGED <<program_active, proxy_storage, storage_mutex, file_mutex, stats,
                   worker, json_file, txt_file, faults, ghost, fn_in, fn_out>>

IntervalSkip ==
    /\ main.pc = "interval"
    /\ main' = [main EXCEPT !.pc = "cycle_tail", !.current_url_index = 0]
    /\ UNCHANGED <<program_active, proxy_storage, storage_mutex, file_mutex, stats,
                   worker, json_file, txt_file, faults, ghost, fn_in, fn_out>>

\* new_proxies, its log line, the pause
CycleTail ==
    /\ main.pc = "cycle_tail"
    /\ main' = [main EXCEPT !.pc = "cycle_head",
                            !.new_proxies = stats.total_proxies - main.initial_proxy_count]
    /\ UNCHANGED <<program_active, proxy_storage, storage_mutex, file_mutex, stats,
                   worker, json_file, txt_file, faults, ghost, fn_in, fn_out>>

\* one test of the drain loop of cleanup_resources; after it, the checkpoint
Drain ==
    /\ main.pc = "drain"
    /\ main' = IF stats.active_workers > 0 /\ main.wait_count < DRAIN_POLLS
               THEN [main EXCEPT !.wait_count = @ + 1]
               ELSE [main EXCEPT !.pc = "save_begin", !.save_return = "teardown",
                                 !.wait_count = 0]
    /\ UNCHANGED <<program_active, proxy_storage, storage_mutex, file_mutex, stats,
                   worker, json_file, txt_file, faults, ghost, fn_in, fn_out>>

\* the mutexes are destroyed, the store freed; main returns 0
Teardown ==
    /\ main.pc = "teardown"
    /\ proxy_storage' = <<>>
    /\ main' = [main EXCEPT !.pc = "exit"]
    /\ UNCHANGED <<program_active, storage_mutex, file_mutex, stats,
                   worker, json_file, txt_file, faults, ghost, fn_in, fn_out>>

Next ==
    \/ handle_interrupt
    \/ \E s \in Slots :
          \/ WorkerStart(s)
          \/ FetchReturn(s)
          \/ FetchNoHandle(s)
          \/ FetchNoBuffer(s)
          \/ FetchSetup(s)
          \/ PerformError(s)
          \/ PerformStatus(s)
          \/ PerformOk(s)
          \/ ExtractReturn(s)
          \/ ExtractNoBatch(s)
          \/ ExtractEnter(s)
          \/ PatternHead(s)
          \/ MatchStep(s)
          \/ MergeEntry(s)
          \/ MergeStep(s)
          \/ MergePublish(s)
          \/ ExtractExit(s)
          \/ WorkerExit(s)
    \/ StartupFailure
    \/ Startup
    \/ SaveNoRoot
    \/ SaveBegin
    \/ SaveJsonNotOpened
    \/ SaveJson
    \/ SaveTxtNotOpened
    \/ SaveTxt
    \/ SaveReturn
    \/ CycleStart
    \/ CycleLoopEnd
    \/ BatchHead
    \/ LaunchSkip
    \/ Launch
    \/ LaunchDone
    \/ JoinOne
    \/ JoinDone
    \/ IntervalSave
    \/ IntervalSkip
    \/ CycleTail
    \/ Drain
    \/ Teardown

Spec == Init /\ [][Next]_vars

\* the steps of the thread of workers[s], and those of the main thread
WorkerNext(s) ==
    \/ WorkerStart(s)
    \/ FetchReturn(s)
    \/ FetchNoHandle(s)
    \/ FetchNoBuffer(s)
    \/ FetchSetup(s)
    \/ PerformError(s)
    \/ PerformStatus(s)
    \/ PerformOk(s)
    \/ ExtractReturn(s)
    \/ ExtractNoBatch(s)
    \/ ExtractEnter(s)
    \/ PatternHead(s)
    \/ MatchStep(s)
    \/ MergeEntry(s)
    \/ MergeStep(s)
    \/ MergePublish(s)
    \/ ExtractExit(s)
    \/ WorkerExit(s)

MainNext ==
    \/ StartupFailure
    \/ Startup
    \/ SaveNoRoot
    \/ SaveBegin
    \/ SaveJsonNotOpened
    \/ SaveJson
    \/ SaveTxtNotOpened
    \/ SaveTxt
    \/ SaveReturn
    \/ CycleStart
    \/ CycleLoopEnd
    \/ BatchHead
    \/ LaunchSkip
    \/ Launch
    \/ LaunchDone
    \/ JoinOne
    \/ JoinDone
    \/ IntervalSave
    \/ IntervalSkip
    \/ CycleTail
    \/ Drain
    \/ Teardown

\* The program under a fair scheduler: every thread that can take a step
\* takes one (a call of curl_easy_perform returns, a sleep ends, a free
\* mutex is acquired).  A signal may arrive or not.
SpecFair ==
    /\ Init
    /\ [][Next]_vars
    /\ WF_vars(MainNext)
    /\ \A s \in Slots : WF_vars(WorkerNext(s))

(***************************************************************************)
(* Properties of the store.                                                *)
(***************************************************************************)
\* the hash of the record in slot i of the store
HashAt(i) == Fields(proxy_storage[i]).hash_value

\* C1: in every reachable state, whatever the interleaving of the workers'
\* merges, no two records among the first total_proxies entries of the
\* store have the same hash_value.
C1_UniqueHashes ==
    \A i, j \in DOMAIN proxy_storage :
        (i < j /\ j < stats.total_proxies) => HashAt(i) # HashAt(j)

\* a merge has found a record of its batch in the store (there was room for
\* it), while another worker waits for the mutex with its own batch
C1_Witness ==
    \E s, t \in Slots :
        /\ worker[s].pc = "merge_publish"
        /\ worker[s].i = Len(worker[s].discovered)
        /\ worker[s].added_count < worker[s].i
        /\ worker[t].pc = "merge_entry"
        /\ Len(worker[t].discovered) > 0

\* C2: in every reachable state total_proxies <= PROXY_CAPACITY, and no
\* merge writes a store slot at an index >= PROXY_CAPACITY, however many
\* records the fetches try to insert.
C2_CapacityBound ==
    /\ stats.total_proxies <= PROXY_CAPACITY
    /\ ~ghost.oob_store
    /\ \A s \in Slots : worker[s].current_total <= PROXY_CAPACITY

\* a merge has stopped at the capacity with records of its batch left over
C2_Witness ==
    \E s \in Slots :
        /\ worker[s].pc = "merge_publish"
        /\ worker[s].current_total = PROXY_CAPACITY
        /\ worker[s].added_count > 0
        /\ worker[s].i < Len(worker[s].discovered)

\* C3: the store is append-only.  No step before the teardown changes or
\* removes a record at an index below total_proxies, and total_proxies never
\* decreases: the store of an earlier state is a prefix of the store of any
\* later state.
C3_AppendOnly ==
    [][main'.pc # "exit" =>
          /\ stats'.total_proxies >= stats.total_proxies
          /\ \A i \in DOMAIN proxy_storage :
                i < stats.total_proxies =>
                    /\ i \in DOMAIN proxy_storage'
                    /\ proxy_storage'[i] = proxy_storage[i]]_vars

\* a merge of a later cycle is appending to a store that holds records, and
\* a checkpoint has been written in between
C3_Witness ==
    /\ main.cycle_number > 1
    /\ json_file.written /\ Len(json_file.proxies) > 0
    /\ \E s \in Slots :
          /\ worker[s].pc = "merge_loop"
          /\ worker[s].added_count > 0
          /\ stats.total_proxies > 0

\* C4: dedup idempotence.  When the document of a URL has been extracted and
\* merged in an earlier cycle, the merge of the same document in a later
\* cycle adds no record and leaves unique_proxies and total_proxies as they
\* were (the state is the one at the end of the merge loop, before the
\* counters are published).
C4_DedupIdempotent ==
    \A s \in Slots :
        (/\ worker[s].pc = "merge_publish"
         /\ ghost.merged_cycle[worker[s].url] \in 1..(main.cycle_number - 1))
        => /\ worker[s].added_count = 0
           /\ worker[s].current_total = stats.total_proxies
           /\ stats.unique_proxies = stats.total_proxies

\* the whole batch of a document merged in an earlier cycle has been looked
\* up in a store that has room
C4_Witness ==
    \E s \in Slots :
        /\ worker[s].pc = "merge_publish"
        /\ ghost.merged_cycle[worker[s].url] \in 1..(main.cycle_number - 1)
        /\ Len(worker[s].discovered) = PROXY_BATCH_SIZE
        /\ worker[s].i = Len(worker[s].discovered)
        /\ worker[s].current_total < PROXY_CAPACITY

(***************************************************************************)
(* Properties of the scheduler and of the shutdown.                        *)
(***************************************************************************)
\* the launch loop of a cycle is over and no shutdown was requested
CycleRanThrough == main.pc = "interval" /\ program_active = 1

\* C5, as stated: in every cycle that no shutdown request interrupts, every
\* catalog URL is dispatched to a fetch task exactly once.
C5_EveryUrlDispatched ==
    CycleRanThrough => \A u \in UrlIndexes : ghost.dispatched[u] = 1

\* C5, amended: in every cycle that no shutdown request interrupts, the
\* launch loop turns to every catalog URL exactly once; a URL is never
\* dispatched twice, and it is left without a fetch task exactly when the
\* allocation of its task or the creation of its thread has failed.
C5_EveryUrlVisitedOnce ==
    /\ \A u \in UrlIndexes : ghost.dispatched[u] + ghost.skipped[u] <= 1
    /\ CycleRanThrough =>
          \A u \in UrlIndexes : ghost.dispatched[u] + ghost.skipped[u] = 1

\* a cycle has run through with one URL left without a task
C5_Witness ==
    /\ CycleRanThrough
    /\ \E u \in UrlIndexes : ghost.skipped[u] = 1 /\ ghost.dispatched[u] = 0
    /\ \E u \in UrlIndexes : ghost.dispatched[u] = 1

\* the threads that exist: created and not yet joined
LiveThreads == {s \in Slots : worker[s].pc # "idle"}

\* the main thread is between two batches
BatchBoundary ==
    \/ main.pc \in {"batch_head", "interval", "cycle_tail", "cycle_head"}
    \/ main.pc = "launch" /\ main.i = 0

\* C6: batch barrier.  At a batch boundary every worker of the earlier
\* batch has terminated and has been joined and active_workers = 0; at most
\* CONCURRENT_DOWNLOADS threads exist at any instant; the index into
\* workers[] stays below MAX_THREAD_COUNT; 0 <= active_workers <=
\* CONCURRENT_DOWNLOADS.
C6_BatchBarrier ==
    /\ BatchBoundary => (LiveThreads = {} /\ stats.active_workers = 0)
    /\ Cardinality(LiveThreads) <= CONCURRENT_DOWNLOADS
    /\ ~ghost.oob_workers
    /\ main.workers_launched <= CONCURRENT_DOWNLOADS
    /\ main.workers_launched < MAX_THREAD_COUNT
    /\ stats.active_workers >= 0
    /\ stats.active_workers <= CONCURRENT_DOWNLOADS

\* the second batch of a cycle is running, after a first batch of
\* CONCURRENT_DOWNLOADS workers
C6_Witness ==
    /\ main.pc = "join"
    /\ main.current_url_index = url_count
    /\ \A u \in UrlIndexes : ghost.dispatched[u] = 1
    /\ \E s \in Slots : worker[s].pc = "perform"
    /\ stats.active_workers = 1

\* C7, as stated: after the flag is set no worker begins a network fetch
\* (no step of curl_easy_perform is taken while the flag is down).
C7_NoFetchAfterFlag ==
    [][\A s \in Slots :
          (program_active = 0 /\ worker[s].pc = "perform")
              => worker'[s].pc = "perform"]_vars

\* C7, amended: a worker that makes the test at the head of
\* fetch_url_content after the flag is set begins no network fetch.  (A
\* worker that has passed the test before the flag was set still calls
\* curl_easy_perform once; write_callback then refuses the data.)
C7_NoFetchAfterCheck ==
    [][\A s \in Slots :
          (program_active = 0 /\ worker[s].pc \in {"idle", "start", "fetch_entry"})
              => worker'[s].pc \notin {"perform", "extract_enter"}]_vars

\* the flag is set and a worker is about to make the test
C7_Witness ==
    /\ program_active = 0
    /\ \E s \in Slots : worker[s].pc = "fetch_entry"
    /\ \E s \in Slots : worker[s].pc = "worker_exit" /\ stats.total_requests = 0

\* C8: after a termination request the process reaches its exit only with
\* active_workers = 0 and after the checkpoint of cleanup_resources, made
\* after the request.
C8_ExitAfterDrainAndCheckpoint ==
    main.pc = "exit" =>
        /\ ghost.shutdown_requested
        /\ stats.active_workers = 0
        /\ LiveThreads = {}
        /\ ghost.final_checkpoint

\* the process has exited after workers have run, and the checkpoint of the
\* cleanup has written the store
C8_Witness ==
    /\ main.pc = "exit"
    /\ stats.total_proxies > 0
    /\ json_file.written
    /\ Len(json_file.proxies) = stats.total_proxies

(***************************************************************************)
(* Properties of the checkpoint.                                           *)
(***************************************************************************)
\* the indices below n of the active records of the store
ActiveBelow(n) ==
    {i \in DOMAIN proxy_storage : i < n /\ Fields(proxy_storage[i]).active # 0}

\* the active records of the store below n, in the order of their indices
StoreListing(n) ==
    [k \in 1..Cardinality(ActiveBelow(n)) |->
        proxy_storage[CHOOSE i \in ActiveBelow(n) :
                          Cardinality({j \in ActiveBelow(n) : j < i}) = k - 1]]

\* proxies.json lists exactly the active records below n, each once, in
\* store order
JsonLists(n) ==
    /\ Len(json_file.proxies) = Cardinality(ActiveBelow(n))
    /\ \A k \in 1..Len(json_file.proxies) :
          JsonObject(json_file.proxies[k]) = JsonObject(StoreListing(n)[k])

\* proxies.txt lists exactly the active records below n, each once, in
\* store order
TxtLists(n) ==
    /\ Len(txt_file.proxies) = Cardinality(ActiveBelow(n))
    /\ \A k \in 1..Len(txt_file.proxies) :
          TxtLine(txt_file.proxies[k]) = TxtLine(StoreListing(n)[k])

\* the two files list the same records
SameListing ==
    {JsonObject(json_file.proxies[k]).url : k \in 1..Len(json_file.proxies)}
        = {TxtLine(txt_file.proxies[k]) : k \in 1..Len(txt_file.proxies)}

\* C9, as stated: at the end of a checkpoint whose sampled count is n, every
\* active record below n is once in the JSON output and once in the text
\* output, in store order, and both outputs list the same records.
C9_BothOutputsList ==
    main.pc = "save_done" =>
        /\ JsonLists(main.current_total)
        /\ TxtLists(main.current_total)
        /\ SameListing

\* C9, amended: at the end of a checkpoint whose sampled count is n, each
\* output file that the checkpoint has opened lists every active record below
\* n exactly once, in store order, and when both files were opened they list
\* the same records.  (A file that cannot be opened, and both files when the
\* JSON root cannot be allocated, keep their previous content.)
C9_OpenedOutputsList ==
    main.pc = "save_done" =>
        /\ main.json_opened => JsonLists(main.current_total)
        /\ main.txt_opened => TxtLists(main.current_total)
        /\ (main.json_opened /\ main.txt_opened) => SameListing

\* a checkpoint of a store of at least two records has written both files
C9_Witness ==
    /\ main.pc = "save_done"
    /\ main.json_opened /\ main.txt_opened
    /\ main.current_total >= 2
    /\ Len(json_file.proxies) = main.current_total

(***************************************************************************)
(* The record of one match, as a function of the captured triple: a        *)
(* specification that applies BuildRecord to each triple of RecordInputs.  *)
(***************************************************************************)
\* "1.2.3.4", "Host: example.com", "ab" (too short), and a name of 253 bytes
InputServers ==
    { <<49, 46, 50, 46, 51, 46, 52>>,
      <<72, 111, 115, 116, 58, 32, 101, 120, 97, 109, 112, 108, 101, 46, 99, 111, 109>>,
      <<97, 98>>,
      <<97, 46>> \o Rep(98, SERVER_SIZE - 5) }

\* "443", "0", "65535"
InputPorts == { <<52, 52, 51>>, <<48>>, <<54, 53, 53, 51, 53>> }

\* the lengths of the secrets: below the minimum, the minimum, the hashed
\* prefix, and lengths around the one that fills connection_url
InputSecretLengths == {15, 16, 64, 200, 460, 475, 511}

RecordInputs ==
    { [server |-> sv, port |-> pt, secret |-> Rep(97, n)] :
          sv \in InputServers, pt \in InputPorts, n \in InputSecretLengths }

InitRecord ==
    /\ InitProgram
    /\ fn_in \in RecordInputs
    /\ fn_out = <<>>

\* lines 563-629 on the triple fn_in
ApplyBuildRecord ==
    /\ fn_out = <<>>
    /\ fn_out' = <<BuildRecord(fn_in)>>
    /\ UNCHANGED <<program_active, proxy_storage, storage_mutex, file_mutex, stats,
                   worker, main, json_file, txt_file, faults, ghost, fn_in>>

NextRecord == ApplyBuildRecord

SpecRecord == InitRecord /\ [][NextRecord]_vars

\* C10: for every record that passes the validation, connection_url is the
\* whole text "tg://proxy?server=" server "&port=" port "&secret=" secret.
C10_UrlComplete ==
    (fn_out # <<>> /\ fn_out[1] # NoRecord) =>
        fn_out[1].connection_url =
            URL_SERVER \o fn_out[1].server \o URL_PORT \o fn_out[1].port
                \o URL_SECRET \o fn_out[1].secret

(***************************************************************************)
(* validate_proxy as a function of its three arguments: a specification    *)
(* that applies it, and the record build of lines 563-629, to each triple  *)
(* of ValidateInputs.                                                      *)
(***************************************************************************)
\* names of 3 ("a.b"), 4, 253 and 254 bytes
ValidateServers ==
    { <<97, 46, 98>>,
      <<97, 46, 98, 99>>,
      <<97, 46>> \o Rep(98, 251),
      <<97, 46>> \o Rep(98, 252) }

\* "443", "1", "65535", "0", "65536", "abc", "443x", "44 3", "-1", "+443",
\* " 443", "0443", "99999", and "0...0443" of 15 and of 16 bytes
ValidatePorts ==
    { <<52, 52, 51>>, <<49>>, <<54, 53, 53, 51, 53>>, <<48>>,
      <<54, 53, 53, 51, 54>>, <<97, 98, 99>>, <<52, 52, 51, 120>>,
      <<52, 52, 32, 51>>, <<45, 49>>, <<43, 52, 52, 51>>, <<32, 52, 52, 51>>,
      <<48, 52, 52, 51>>, <<57, 57, 57, 57, 57>>,
      Rep(48, 12) \o <<52, 52, 51>>, Rep(48, 13) \o <<52, 52, 51>> }

\* s with the byte at position k replaced by c
WithByte(s, k, c) == [s EXCEPT ![k] = c]

\* Secrets of hex digits ('a'), '=' (61), spaces (32) and 'z' (122):
\* the lengths 10, 15, 16, 511 and 512; a 'z' at the first, at the last and
\* at a middle position, and at the positions 128 and 129 of a long secret;
\* 7 and 8 hex digits among '='; 15 and 16 valid characters among spaces.
ValidateSecrets ==
    { Rep(97, 10), Rep(97, 15), Rep(97, 16), Rep(97, 511), Rep(97, 512),
      WithByte(Rep(97, 16), 1, 122),
      WithByte(Rep(97, 16), 16, 122),
      WithByte(Rep(97, 100), 50, 122),
      WithByte(Rep(97, 200), SECRET_SCAN_LIMIT, 122),
      WithByte(Rep(97, 200), SECRET_SCAN_LIMIT + 1, 122),
      Rep(97, SECRET_SCAN_LIMIT) \o <<122>>,
      WithByte(Rep(97, 511), 511, 122),
      Rep(97, 7) \o Rep(61, 9),
      Rep(97, 8) \o Rep(61, 8),
      Rep(97, 15) \o <<32>>,
      Rep(97, 8) \o <<32>> \o Rep(97, 8),
      Rep(61, 16) }

ValidateInputs ==
    { [server |-> sv, port |-> pt, secret |-> sc] :
          sv \in ValidateServers, pt \in ValidatePorts, sc \in ValidateSecrets }

InitValidate ==
    /\ InitProgram
    /\ fn_in \in ValidateInputs
    /\ fn_out = <<>>

\* the call validate_proxy(server, port, secret) on the triple fn_in
ApplyValidate ==
    /\ fn_out = <<>>
    /\ fn_out' = <<[accepted |-> validate_proxy(fn_in.server, fn_in.port, fn_in.secret)]>>
    /\ UNCHANGED <<program_active, proxy_storage, storage_mutex, file_mutex, stats,
                   worker, main, json_file, txt_file, faults, ghost, fn_in>>

NextValidate ==
    \/ ApplyValidate
    \/ ApplyBuildRecord

SpecValidate == InitValidate /\ [][NextValidate]_vars

\* validate_proxy has been called, and the record build has run
Validated == fn_out # <<>> /\ "accepted" \in DOMAIN fn_out[1]
RecordBuilt == fn_out # <<>> /\ "server" \in DOMAIN fn_out[1]

\* the numbers of hexadecimal digits and of '=' in the whole of s
HexCount(s) == Cardinality({k \in 1..Len(s) : IsHexDigit(s[k])})
PadCount(s) == Cardinality({k \in 1..Len(s) : s[k] = 61})

\* s holds, at some position, a character other than a hexadecimal digit,
\* '=' or white space
HasDisallowed(s) ==
    \E k \in 1..Len(s) : ~(IsHexDigit(s[k]) \/ s[k] = 61 \/ IsSpace(s[k]))

\* C11: validate_proxy rejects every triple whose secret (of 16 to 511
\* bytes) holds, at any position, a character other than a hexadecimal
\* digit, '=' or white space, and every triple whose secret has fewer than
\* 8 hexadecimal digits or fewer than 16 hexadecimal-or-'=' characters.
C11_SecretAlphabet ==
    (/\ Validated
     /\ Len(fn_in.secret) >= 16 /\ Len(fn_in.secret) <= 511
     /\ \/ HasDisallowed(fn_in.secret)
        \/ HexCount(fn_in.secret) < 8
        \/ HexCount(fn_in.secret) + PadCount(fn_in.secret) < 16)
    => ~fn_out[1].accepted

\* the position of the first digit of the digits that end p (Len(p) + 1: p
\* does not end with a digit)
FirstDigitOfTail(p) ==
    CHOOSE k \in 1..(Len(p) + 1) :
        /\ \A j \in k..Len(p) : IsDigit(p[j])
        /\ k > 1 => ~IsDigit(p[k - 1])

\* the digits of ds without their leading zeros
RECURSIVE NoLeadingZeros(_)
NoLeadingZeros(ds) ==
    IF Len(ds) > 0 /\ ds[1] = 48 THEN NoLeadingZeros(Tail(ds)) ELSE ds

\* the number that at most 5 digits denote
RECURSIVE DecimalValue(_)
DecimalValue(ds) ==
    IF Len(ds) = 0 THEN 0
    ELSE 10 * DecimalValue(SubSeq(ds, 1, Len(ds) - 1)) + (ds[Len(ds)] - 48)

\* p is a decimal integer of 1..65535 with nothing after it: digits, with
\* before them at most white space and then one sign (what C reads as a
\* decimal integer), that denote a number of 1..65535
DecimalPort(p) ==
    LET k == FirstDigitOfTail(p)
        digits == NoLeadingZeros(SubSeq(p, k, Len(p)))
        signed == k > 1 /\ (p[k - 1] = 43 \/ p[k - 1] = 45)
        blanks == IF signed THEN k - 2 ELSE k - 1
    IN  /\ k <= Len(p)
        /\ \A j \in 1..blanks : IsSpace(p[j])
        /\ ~(signed /\ p[k - 1] = 45)
        /\ Len(digits) >= 1 /\ Len(digits) <= 5
        /\ DecimalValue(digits) <= PORT_MAX

\* the three fields are within what the validation admits
AdmissibleFields(server, port, secret) ==
    /\ DecimalPort(port)
    /\ Len(server) >= 4 /\ Len(server) <= 253
    /\ Len(secret) >= 16 /\ Len(secret) <= 511

\* C12: validate_proxy rejects every triple whose port is not a decimal
\* integer of 1..65535 with nothing after it ("0", "65536", "abc", ...),
\* whose server has fewer than 4 or more than 253 bytes, or whose secret has
\* fewer than 16 or more than 511 bytes; and the record that the code builds
\* from a match, the only thing it places in a batch and from there in the
\* store, never has such a field.
C12_RejectsBadFields ==
    /\ (Validated /\ ~AdmissibleFields(fn_in.server, fn_in.port, fn_in.secret))
          => ~fn_out[1].accepted
    /\ RecordBuilt
          => AdmissibleFields(fn_out[1].server, fn_out[1].port, fn_out[1].secret)

\* validate_proxy has rejected the port "65536" of a triple whose server and
\* secret are admissible
C12_Witness ==
    /\ Validated
    /\ ~fn_out[1].accepted
    /\ fn_in.port = <<54, 53, 53, 51, 54>>
    /\ Len(fn_in.server) = 4
    /\ fn_in.secret = Rep(97, 16)

(***************************************************************************)
(* compute_hash as a function of its three arguments: a specification that *)
(* applies it to each triple of HashInputs, normalized fields as line 609  *)
(* passes them.                                                            *)
(***************************************************************************)
\* "1.2.3.4", "example.com", "a.bc", "A.BC"
HashServers ==
    { <<49, 46, 50, 46, 51, 46, 52>>,
      <<101, 120, 97, 109, 112, 108, 101, 46, 99, 111, 109>>,
      <<97, 46, 98, 99>>,
      <<65, 46, 66, 67>> }

\* "443", "80", "8080"
HashPorts == { <<52, 52, 51>>, <<56, 48>>, <<56, 48, 56, 48>> }

\* "deadbeefdeadbeef", "DEADBEEFDEADBEEF", and secrets of 'a' of the lengths
\* 16, 63, 64 and 100, and of 63 and 64 'a' followed by '1' or '2'
HashSecrets ==
    { <<100, 101, 97, 100, 98, 101, 101, 102, 100, 101, 97, 100, 98, 101, 101, 102>>,
      <<68, 69, 65, 68, 66, 69, 69, 70, 68, 69, 65, 68, 66, 69, 69, 70>>,
      Rep(97, 16), Rep(97, SECRET_HASH_PREFIX - 1), Rep(97, SECRET_HASH_PREFIX),
      Rep(97, 100),
      Rep(97, SECRET_HASH_PREFIX - 1) \o <<49>>,
      Rep(97, SECRET_HASH_PREFIX - 1) \o <<50>>,
      Rep(97, SECRET_HASH_PREFIX) \o <<49>>,
      Rep(97, SECRET_HASH_PREFIX) \o <<50>> }

HashInputs ==
    { [server |-> sv, port |-> pt, secret |-> sc] :
          sv \in HashServers, pt \in HashPorts, sc \in HashSecrets }

InitHash ==
    /\ InitProgram
    /\ fn_in \in HashInputs
    /\ fn_out = <<>>

\* the call compute_hash(server, port, secret) on the triple fn_in
ApplyHash ==
    /\ fn_out = <<>>
    /\ fn_out' = <<compute_hash(fn_in.server, fn_in.port, fn_in.secret)>>
    /\ UNCHANGED <<program_active, proxy_storage, storage_mutex, file_mutex, stats,
                   worker, main, json_file, txt_file, faults, ghost, fn_in>>

NextHash == ApplyHash

SpecHash == InitHash /\ [][NextHash]_vars

\* FNV-1a on 64 bits, stated on bits: a word is its 64 bits, bit 0 first.
\* 0xcbf29ce484222325, as the bit positions that are set
FnvBasisBits ==
    {0, 2, 5, 8, 9, 13, 17, 21, 26, 31, 34, 37, 38, 39, 42, 43, 44, 47,
     49, 52, 53, 54, 55, 56, 57, 59, 62, 63}
\* 0x100000001b3 = 2^40 + 2^8 + 2^7 + 2^5 + 2^4 + 2^1 + 2^0
FnvPrimeBits == {0, 1, 4, 5, 7, 8, 40}

Pow2(n) == IF n = 0 THEN 1 ELSE IF n = 1 THEN 2 ELSE IF n = 2 THEN 4
           ELSE IF n = 3 THEN 8 ELSE IF n = 4 THEN 16 ELSE IF n = 5 THEN 32
           ELSE IF n = 6 THEN 64 ELSE 128

\* bit b of the xor of the word w with the byte c
XorBit(w, c, b) ==
    IF b < 8 THEN (w[b + 1] + ((c \div Pow2(b)) % 2)) % 2 ELSE w[b + 1]

\* w * prime modulo 2^64: the sum of the copies of w shifted by the bits of
\* the prime, bit by bit with its carry
RECURSIVE TimesPrimeFrom(_, _, _)
TimesPrimeFrom(w, b, carry) ==
    IF b > 63 THEN <<>>
    ELSE LET t == carry + Cardinality({sh \in FnvPrimeBits : sh <= b /\ w[b - sh + 1] = 1})
         IN  <<t % 2>> \o TimesPrimeFrom(w, b + 1, t \div 2)

\* the fold over the bytes of the text
Fnv1aBits(w0, text) ==
    LET Step(w, k) ==
            TimesPrimeFrom([b \in 1..64 |-> XorBit(w, text[k], b - 1)], 0, 0)
    IN  ForLoop(Step, w0, 1, Len(text))

\* the 8 bytes of a word of bits, least significant first
BytesOfBits(w) ==
    [k \in 1..8 |->
        w[8 * k - 7] + 2 * w[8 * k - 6] + 4 * w[8 * k - 5] + 8 * w[8 * k - 4]
        + 16 * w[8 * k - 3] + 32 * w[8 * k - 2] + 64 * w[8 * k - 1] + 128 * w[8 * k]]

\* the FNV-1a hash of a text
Fnv1a(text) ==
    BytesOfBits(Fnv1aBits([b \in 1..64 |-> IF (b - 1) \in FnvBasisBits THEN 1 ELSE 0],
                          text))

\* what the hash is of: server ':' port ':' and the first 64 bytes of secret
HashedText(m) ==
    m.server \o <<58>> \o m.port \o <<58>>
        \o SubSeq(m.secret, 1, Min(64, Len(m.secret)))

\* C13: compute_hash is the FNV-1a fold modulo 2^64 (start
\* 0xcbf29ce484222325, for each byte xor then multiply by 0x100000001b3)
\* over the bytes of server, one ':', the bytes of port, one ':' and the
\* first 64 bytes of secret; being a function of that text only, it gives
\* equal hashes to triples equal on (server, port, secret[0:64]).
C13_HashIsFnv1a ==
    fn_out # <<>> => fn_out[1] = Fnv1a(HashedText(fn_in))

\* the hash of "example.com", "8080" and a secret of 65 bytes is
\* 0xe7a1e60fb19f7d0a, the FNV-1a hash of the text with the 64-byte prefix
C13_Witness ==
    /\ fn_in = [server |-> <<101, 120, 97, 109, 112, 108, 101, 46, 99, 111, 109>>,
                port |-> <<56, 48, 56, 48>>,
                secret |-> Rep(97, SECRET_HASH_PREFIX) \o <<49>>]
    /\ fn_out = << <<10, 125, 159, 177, 15, 230, 161, 231>> >>

(***************************************************************************)
(* The byte counter over the lifetime of the process: a specification of   *)
(* the successive transfers that end with status 200, each with the size   *)
(* of its body, and of what fetch_url_content counts for them.             *)
(***************************************************************************)
\* the transfers of a run
MaxFetches == 42

\* the sizes of a body: one byte, and the most a buffer of BUFFER_CAPACITY
\* bytes holds before its terminating NUL
ContentSizes == {1, BUFFER_CAPACITY - 1}

\* fetch_url_content on a transfer of content_size bytes with status 200:
\* total_requests, total_bytes and processed_urls
FetchCounts(content_size) ==
    /\ stats.total_requests < MaxFetches
    /\ stats' = [stats EXCEPT !.total_requests = @ + 1,
                              !.total_bytes = AddU32(@, content_size),
                              !.processed_urls = @ + 1]
    /\ UNCHANGED <<program_active, proxy_storage, storage_mutex, file_mutex,
                   worker, main, json_file, txt_file, faults, ghost, fn_in, fn_out>>

NextBytes == \E content_size \in ContentSizes : FetchCounts(content_size)

SpecBytes == Init /\ [][NextBytes]_vars

\* a cycle starts: lines 912-914
CycleStarts == main.pc = "cycle_head" /\ main'.pc = "batch_head"

\* C14: none of the counters total_proxies, processed_urls, completed_cycles,
\* network_errors, unique_proxies, total_requests, successful_proxies and
\* total_bytes (32-bit unsigned) ever decreases; last_cycle_proxies is the
\* only counter that is reset, and only at the start of a cycle.
C14_CountersMonotonic ==
    [][/\ stats'.total_proxies >= stats.total_proxies
       /\ stats'.processed_urls >= stats.processed_urls
       /\ stats'.completed_cycles >= stats.completed_cycles
       /\ stats'.network_errors >= stats.network_errors
       /\ stats'.unique_proxies >= stats.unique_proxies
       /\ stats'.total_requests >= stats.total_requests
       /\ stats'.successful_proxies >= stats.successful_proxies
       /\ LessEqU32(stats.total_bytes, stats'.total_bytes)
       /\ stats'.last_cycle_proxies < stats.last_cycle_proxies => CycleStarts]_vars

(***************************************************************************)
(* Properties of the failure handling.                                     *)
(***************************************************************************)
\* The lines that report a dropped record.  log_message has no caller with
\* such a line: the line of the merge gives the number of records added and
\* the total, not that records were left out, and the match loop prints
\* nothing when it stops at a full batch.
DropReports == {}

\* C15: whenever a discovered record is dropped because the store has
\* reached PROXY_CAPACITY or the batch of the fetch has reached
\* PROXY_BATCH_SIZE, at least one log line reporting the drop is printed for
\* that occurrence (at the latest when the fetch ends).
C15_DropsAreLogged ==
    \A s \in Slots :
        (worker[s].pc = "worker_exit" /\ ghost.dropped[s])
            => \E k \in 1..Len(worker[s].log) : worker[s].log[k] \in DropReports

\* thread s takes the step that ends its transfer with a transport error, an
\* empty body or a status other than 200
FetchFails(s) == worker[s].pc = "perform" /\ worker'[s].pc = "worker_exit"

\* thread s, whose fetch is over, takes a step
AfterFetch(s) == worker[s].pc = "worker_exit" /\ worker'[s] # worker[s]

\* the store and the counters of the store and of the processed URLs
StoreAndCounts ==
    <<proxy_storage, stats.total_proxies, stats.unique_proxies, stats.processed_urls>>

\* C16: a fetch that ends with a transport error, an empty body or a status
\* other than 200 adds exactly one to network_errors (in the step that ends
\* the transfer, and nothing in what the thread does afterwards), leaves the
\* store, total_proxies, unique_proxies and processed_urls as they are, and
\* its URL is not given to a second task before the next cycle.
C16_FailedFetchCounted ==
    [][\A s \in Slots :
          /\ FetchFails(s) =>
                /\ stats'.network_errors = stats.network_errors + 1
                /\ StoreAndCounts' = StoreAndCounts
                /\ worker'[s].log[Len(worker'[s].log)] \in {MSG_HTTP, MSG_CURL_ERROR}
          /\ AfterFetch(s) =>
                /\ stats'.network_errors = stats.network_errors
                /\ StoreAndCounts' = StoreAndCounts
                /\ worker'[s].pc = "terminated"
          /\ worker'[s].pc = "start" => ghost'.dispatched[worker'[s].url] = 1]_vars

\* a fetch has ended with a status other than 200 while the store holds
\* records and another URL of the cycle has been processed
C16_Witness ==
    \E s \in Slots :
        /\ worker[s].pc = "worker_exit"
        /\ worker[s].log = <<MSG_FETCHING, MSG_HTTP>>
        /\ stats.network_errors = 1
        /\ stats.total_proxies > 0
        /\ stats.processed_urls > 0

\* The lines that report a file that could not be written.
\* save_proxies_to_json calls log_message in the two branches where fopen
\* has succeeded only.
WriteFailureReports == {}

\* the step with which save_proxies_to_json comes to its end after one of
\* its two files could not be opened
SaveEndsFailed == main.pc # "save_done" /\ main'.pc = "save_done" /\ ghost'.open_failed

\* C17: when one of the two checkpoint files cannot be opened, the failure
\* is logged, the file lock is released, the store and the counters are as
\* they were, and the process goes on (to the cycle loop, or to the teardown
\* when the checkpoint is the one of the cleanup).
C17_WriteFailureLogged ==
    [][SaveEndsFailed =>
          /\ \E k \in 1..Len(main'.log) : main'.log[k] \in WriteFailureReports
          /\ file_mutex' = FREE
          /\ proxy_storage' = proxy_storage
          /\ stats' = stats
          /\ main'.save_return \in {"cycle_head", "cycle_tail", "teardown"}]_vars

\* the process has done nothing of its work: no cycle entered, no worker
\* launched, no request made, no checkpoint written, no lock held
NothingDone ==
    /\ main.cycle_number = 0
    /\ stats = InitStats
    /\ \A s \in Slots : worker[s] = NoThread
    /\ \A u \in UrlIndexes : ghost.dispatched[u] = 0 /\ ghost.skipped[u] = 0
    /\ json_file = NoFile /\ txt_file = NoFile
    /\ file_mutex = FREE /\ storage_mutex = FREE

\* C18: when curl_global_init, the allocation of the store or the
\* initialization of a mutex fails at startup, the process exits with
\* failure, and it has not entered the cycle loop, launched a worker or
\* written a checkpoint, nor does it afterwards.
C18_StartupFailureIsFatal ==
    [][/\ main'.pc = "exit_failure" => NothingDone'
       /\ main.pc = "exit_failure" => main'.pc = "exit_failure"
       /\ main'.pc = "exit_failure" => main.pc \in {"startup", "exit_failure"}]_vars

\* the process has exited with failure, here after a signal had arrived
C18_Witness ==
    /\ main.pc = "exit_failure"
    /\ program_active = 0

(***************************************************************************)
(* The checkpoint writer and the merge.                                    *)
(***************************************************************************)
\* slot i holds a record that a merge has written (calloc left it zero)
Complete(i) == i \in DOMAIN proxy_storage /\ proxy_storage[i] # ZeroRecord

\* thread s holds the store lock in its merge
InMerge(s) == worker[s].pc \in {"merge_loop", "merge_publish"}

\* the slots the merge of thread s has written since it loaded
\* total_proxies, and the slot it writes next
MergeWindow(s) ==
    IF InMerge(s)
    THEN (worker[s].current_total - worker[s].added_count)..worker[s].current_total
    ELSE {}

\* the checkpoint writer is between its sample of total_proxies and its return
Saving == main.pc \in {"save_json", "save_txt", "save_done"}

\* the indices the loops of the writer visit
SaveReads == IF Saving THEN 0..(main.current_total - 1) ELSE {}

\* the records of the slots below n, in the order of the indices
Published(n) == [k \in 1..n |-> proxy_storage[k - 1]]

\* C19: the checkpoint writer reads only indices below the count it sampled
\* from total_proxies; every slot below a published total_proxies holds a
\* completely written record and lies outside the slots that a merge in
\* progress has written or writes next; so what the writer puts into the
\* JSON array and into the text file are the complete records of the slots
\* below its sample, and never a slot of a merge in progress.  (Every
\* checkpoint runs when the threads of the batch have been joined; the state
\* after free(proxy_storage), where no writer runs, has no slots.)
C19_WriterReadsPublishedSlots ==
    /\ \A i \in SaveReads : i < stats.total_proxies
    /\ main.pc # "exit" =>
          \A i \in 0..(stats.total_proxies - 1) :
              /\ Complete(i)
              /\ \A s \in Slots : i \notin MergeWindow(s)
    /\ main.pc = "save_json" => main.root.proxies = Published(main.current_total)
    /\ (main.pc \in {"save_txt", "save_done"} /\ main.json_opened)
          => json_file.proxies = Published(main.current_total)
    /\ (main.pc = "save_done" /\ main.txt_opened)
          => txt_file.proxies = Published(main.current_total)

\* the writer has read the slots of a store to which the merges of two
\* fetches have published records, and a merge has been in progress before
C19_Witness ==
    /\ main.pc = "save_txt"
    /\ main.json_opened
    /\ main.current_total >= 2
    /\ \E i, j \in SaveReads : proxy_storage[i].source # proxy_storage[j].source

\* the records of the matches of a page in the order the extraction finds
\* them: pattern by pattern, and the matches of a pattern in text order
\* (id 0: a match that gives no record)
DiscoveryOrder(page) ==
    LET Step(acc, p) ==
            acc \o [k \in 1..Len(DOCS[page].matches[p]) |->
                       RECORD_ID[DOCS[page].matches[p][k].triple]]
    IN  ForLoop(Step, <<>>, 1, PATTERN_COUNT)

\* the place of the first match of the page that gives record id
FirstFound(page, id) ==
    CHOOSE k \in 1..Len(DiscoveryOrder(page)) :
        /\ DiscoveryOrder(page)[k] = id
        /\ \A j \in 1..(k - 1) : DiscoveryOrder(page)[j] # id

\* the slots lo..hi-1 hold records of the fetch of thread t, in the order of
\* their discovery in the page fetched
RangeOfFetch(t, storage, lo, hi) ==
    /\ \A i \in lo..(hi - 1) :
          /\ i \in DOMAIN storage
          /\ storage[i].source = TARGET_URLS[t.url + 1]
          /\ \E k \in 1..Len(DiscoveryOrder(t.content)) :
                DiscoveryOrder(t.content)[k] = storage[i].id
    /\ \A i, j \in lo..(hi - 1) :
          i < j => FirstFound(t.content, storage[i].id)
                      < FirstFound(t.content, storage[j].id)

\* C20: the merge of a fetch is one critical section.  A thread in its merge
\* holds the store lock; while it does, the only writes to the store are its
\* own, each to the slot that follows the slots it has written, starting at
\* the published count; when it publishes, the records it has added are the
\* slots from the old to the new total_proxies, a contiguous range in
\* discovery order (pattern order, then match order), so the ranges of two
\* fetches that complete concurrently do not interleave.
C20_MergeIsOneRange ==
    [][/\ \A s \in Slots :
            /\ InMerge(s) => storage_mutex = <<s>>
            /\ (InMerge(s) /\ proxy_storage' # proxy_storage) =>
                  /\ worker[s].current_total
                        = stats.total_proxies + worker[s].added_count
                  /\ worker'[s].added_count = worker[s].added_count + 1
                  /\ worker'[s].current_total = worker[s].current_total + 1
                  /\ \A i \in DOMAIN proxy_storage :
                        i # worker[s].current_total
                            => proxy_storage'[i] = proxy_storage[i]
            /\ (worker[s].pc = "merge_publish" /\ worker'[s].pc # "merge_publish") =>
                  /\ stats'.total_proxies
                        = stats.total_proxies + worker[s].added_count
                  /\ RangeOfFetch(worker[s], proxy_storage,
                                  stats.total_proxies, stats'.total_proxies)
       /\ (proxy_storage' # proxy_storage /\ main'.pc # "exit")
             => \E s \in Slots : InMerge(s)]_vars

\* a fetch publishes a range of two records while a second fetch, completing
\* concurrently with a batch of its own, waits for the store lock
C20_Witness ==
    \E a, b \in Slots :
        /\ a # b
        /\ worker[a].pc = "merge_publish"
        /\ worker[a].added_count = 2
        /\ worker[b].pc = "merge_entry"
        /\ Len(worker[b].discovered) > 0

(***************************************************************************)
(* Shutdown.                                                               *)
(***************************************************************************)
\* the step creates a worker thread
ThreadCreated == \E s \in Slots : worker[s].pc = "idle" /\ worker'[s].pc = "start"

\* the step starts a batch
BatchStarted == main.pc = "batch_head" /\ main'.pc = "launch"

\* the step starts a cycle
CycleStarted == main'.cycle_number > main.cycle_number

\* the step of thread s begins a pattern
PatternBegun(s) == worker[s].pc = "pattern" /\ worker'[s].pc = "match"

\* the step of thread s is a match attempt: it goes on in the match loop,
\* or it takes a record into the batch
MatchAttempted(s) ==
    /\ worker[s].pc = "match"
    /\ worker'[s] # worker[s]
    /\ \/ worker'[s].pc = "match"
       \/ worker'[s].discovered # worker[s].discovered
       \/ MSG_FOUND \in {worker'[s].log[k] : k \in (Len(worker[s].log) + 1)..Len(worker'[s].log)}

\* the scheduler and the extractions start nothing but, maybe, threads
NoFurtherWork ==
    /\ ~BatchStarted
    /\ ~CycleStarted
    /\ \A s \in Slots : ~PatternBegun(s) /\ ~MatchAttempted(s)

\* C21, as stated: once the flag is set, the scheduler creates no worker
\* thread, starts no batch and no cycle, and no extraction begins a pattern
\* or a match attempt.
C21_NoWorkAfterFlag ==
    [][program_active = 0 => (~ThreadCreated /\ NoFurtherWork)]_vars

\* C21, amended: once the flag is set, the scheduler starts no batch and no
\* cycle, and no extraction begins a pattern or a match attempt (each of
\* these reads the flag in its loop test).  The launch loop of a batch does
\* not read the flag: the threads that remain of the batch in progress are
\* still created, and each of them returns without a fetch.
C21_NoBatchAfterFlag ==
    [][program_active = 0 =>
          /\ NoFurtherWork
          /\ ThreadCreated => (main.pc = "launch" /\ main.i < main.batch_size)
          /\ \A s \in Slots :
                (worker[s].pc = "start" /\ worker'[s].pc # "start")
                    => worker'[s].pc = "worker_exit"]_vars

\* the flag has cut a cycle short: the batch loop has been left with a URL
\* of the catalog still to visit, while a thread created for the last batch
\* has returned without a fetch
C21_Witness ==
    /\ program_active = 0
    /\ main.pc = "interval"
    /\ main.current_url_index < url_count
    /\ stats.total_requests = 1
    /\ ghost.dispatched[0] = 1 /\ ghost.dispatched[1] = 1

InCycle ==
    main.pc \in {"batch_head", "launch", "join", "interval", "cycle_tail"}
        \/ (main.pc \in {"save_begin", "save_json", "save_txt", "save_done"}
               /\ main.save_return = "cycle_tail")

\* the step computes the cycle delta
DeltaComputed == main.pc = "cycle_tail" /\ main'.pc = "cycle_head"

\* the slots of the store that hold a record
StoreSize == Cardinality({i \in DOMAIN proxy_storage : proxy_storage[i] # ZeroRecord})

\* C23: the cycle delta is computed when every thread launched in the cycle
\* has been joined, and it is the number of records merged in the cycle: the
\* size of the store then, less its size at the start of the cycle (the
\* store is only written in a cycle: outside one its size does not change),
\* which is the value of last_cycle_proxies at that moment.
C23_CycleDelta ==
    [][/\ DeltaComputed =>
            /\ \A s \in Slots : worker[s] = NoThread
            /\ stats.active_workers = 0
            /\ main'.new_proxies = StoreSize - main.initial_proxy_count
            /\ main'.new_proxies = stats.last_cycle_proxies
       /\ CycleStarted => main'.initial_proxy_count = StoreSize
       /\ InCycle' => main'.initial_proxy_count = main.initial_proxy_count
                          \/ CycleStarted
       /\ ~InCycle => StoreSize' = StoreSize \/ main'.pc = "exit"]_vars

\* the delta of a second cycle that has added one record to a store of two
C23_Witness ==
    /\ main.pc = "cycle_head"
    /\ main.cycle_number = 2
    /\ main.new_proxies = 1
    /\ stats.last_cycle_proxies = 1
    /\ stats.total_proxies = 3

(***************************************************************************)
(* The match loop of one pattern over any content: a specification in      *)
(* which pcre2_match, called with a start offset, returns what its         *)
(* contract allows: no match, or a match that begins at or after the start *)
(* offset and ends within the content (ovector[1] is the offset after the  *)
(* last byte of the match, ovector[0] <= ovector[1]).                      *)
(***************************************************************************)
\* the longest content
MaxContent == 5

\* the triples a match may capture: valid ones, one that is rejected, and
\* two with one hash
ScanTriples == {1, 3, 4, 5, 6, 7}

\* what pcre2_match may find from start_offset in a content of length bytes
PcreMatches(start_offset, length) ==
    { [ovector_start |-> b, ovector_end |-> e, triple |-> n] :
          b \in start_offset..length, e \in start_offset..length, n \in ScanTriples }

\* the batch as the patterns before have left it: empty, one record, full
ScanBatches ==
    { <<>>,
      <<[id |-> RECORD_ID[1], source |-> TARGET_URLS[1]]>>,
      <<[id |-> RECORD_ID[1], source |-> TARGET_URLS[1]],
        [id |-> RECORD_ID[3], source |-> TARGET_URLS[1]]>> }

InitScan ==
    /\ fn_in \in {[content_length |-> n, discovered |-> b] :
                      n \in 1..MaxContent, b \in ScanBatches}
    /\ fn_out = <<>>
    /\ program_active = 1
    /\ proxy_storage = [i \in StoreIndexes |-> ZeroRecord]
    /\ storage_mutex = FREE
    /\ file_mutex = FREE
    /\ stats = InitStats
    /\ worker = [s \in Slots |->
                    IF s = 0
                    THEN [NoThread EXCEPT !.pc = "match", !.discovered = fn_in.discovered]
                    ELSE NoThread]
    /\ main = InitMain
    /\ json_file = NoFile
    /\ txt_file = NoFile
    /\ faults = 0
    /\ ghost = InitGhost

\* a turn of the match loop in which pcre2_match finds the match m
ScanMatch(m) ==
    /\ worker[0].pc = "match"
    /\ m.ovector_start <= m.ovector_end
    /\ worker' = [worker EXCEPT ![0] =
          MatchTurn(@, fn_in.content_length,
                    [k \in 1..(@.match_index + 1) |-> Match(m.triple, m.ovector_end)],
                    program_active)]
    /\ fn_out' = IF worker[0].current_offset < fn_in.content_length
                      /\ Len(worker[0].discovered) < PROXY_BATCH_SIZE
                 THEN Append(fn_out, m) ELSE fn_out
    /\ UNCHANGED <<program_active, proxy_storage, storage_mutex, file_mutex, stats,
                   main, json_file, txt_file, faults, ghost, fn_in>>

\* a turn of the match loop in which pcre2_match finds nothing
ScanNoMatch ==
    /\ worker[0].pc = "match"
    /\ worker' = [worker EXCEPT ![0] =
          MatchTurn(@, fn_in.content_length, <<>>, program_active)]
    /\ UNCHANGED <<program_active, proxy_storage, storage_mutex, file_mutex, stats,
                   main, json_file, txt_file, faults, ghost, fn_in, fn_out>>

NextScan ==
    \/ \E m \in PcreMatches(worker[0].current_offset, fn_in.content_length) : ScanMatch(m)
    \/ ScanNoMatch

\* the loop runs: the thread is scheduled
SpecScan == InitScan /\ [][NextScan]_vars /\ WF_vars(NextScan)

\* the step has obtained a match from pcre2_match
MatchObtained == Len(fn_out') > Len(fn_out)

\* C24: in the match loop of a pattern, every match moves the scan offset
\* forward, to one byte past the end of the match (the loop is left when
\* that is at or past the end of the content); each match begins after the
\* end of the match before it; and the loop is left after finitely many
\* turns, whatever the content of the buffer.
C24_ScanAdvances ==
    /\ [][MatchObtained =>
             /\ worker'[0].pc = "match" =>
                   /\ worker'[0].current_offset > worker[0].current_offset
                   /\ worker'[0].current_offset = fn_out'[Len(fn_out')].ovector_end + 1
                   /\ worker'[0].current_offset < fn_in.content_length
             /\ worker'[0].pc # "match" =>
                   fn_out'[Len(fn_out')].ovector_end + 1 >= fn_in.content_length
             /\ Len(fn_out) > 0 =>
                   fn_out'[Len(fn_out')].ovector_start > fn_out[Len(fn_out)].ovector_end]_vars
    /\ [](Len(fn_out) <= fn_in.content_length)
    /\ <>(worker[0].pc = "pattern")

\* the loop has been left after three matches, the last an empty one
C24_Witness ==
    /\ worker[0].pc = "pattern"
    /\ Len(fn_out) = 3
    /\ fn_out[3].ovector_start = fn_out[3].ovector_end

\* the batch of thread s holds at most PROXY_BATCH_SIZE records, of
\* different hashes
BatchWithinBounds(s) ==
    /\ Len(worker[s].discovered) <= PROXY_BATCH_SIZE
    /\ \A i, j \in 1..Len(worker[s].discovered) :
          i # j => Fields(worker[s].discovered[i]).hash_value
                      # Fields(worker[s].discovered[j]).hash_value

\* C25: throughout an extraction the batch of the fetch holds at most
\* PROXY_BATCH_SIZE records, no two of them with one hash (discovered_proxies
\* is written at index discovery_count only, which is below PROXY_BATCH_SIZE),
\* whatever the matches of the content.
C25_BatchBounded == \A s \in Slots : BatchWithinBounds(s)

\* a batch is full after three matches, two of which give one hash
C25_Witness ==
    /\ worker[0].pc = "pattern"
    /\ Len(fn_in.discovered) = 0
    /\ Len(worker[0].discovered) = PROXY_BATCH_SIZE
    /\ Len(fn_out) = 3
    /\ \E k \in 1..Len(fn_out) : fn_out[k].triple = 6
    /\ \E k \in 1..Len(fn_out) : fn_out[k].triple = 5

(***************************************************************************)
(* The periodic checkpoint: a specification of the cycle loop of           *)
(* autonomous_operation with the clock in it, in seconds.  The batches of  *)
(* a cycle are one step here (their threads are launched and joined);      *)
(* time passes between any two steps.  fn_out holds the locals of the loop *)
(* (last_save, now, cycle_number), the clock, and the periodic checkpoints *)
(* written so far, each with its cycle and the time of its test.           *)
(***************************************************************************)
SAVE_INTERVAL == 2
\* 10 in the source

\* the seconds of a run
MaxTime == 6

\* last_save = time(NULL), the first checkpoint, the head of the cycle loop
InitTimed ==
    /\ InitProgram
    /\ fn_in = <<>>
    /\ fn_out = [pc |-> "cycle_head", clock |-> 0, last_save |-> 0, now |-> 0,
                 cycle_number |-> 0, checkpoints |-> <<>>]

\* a second passes
Tick ==
    /\ fn_out.clock < MaxTime
    /\ fn_out' = [fn_out EXCEPT !.clock = @ + 1]
    /\ UNCHANGED <<program_active, proxy_storage, storage_mutex, file_mutex, stats,
                   worker, main, json_file, txt_file, faults, ghost, fn_in>>

\* a cycle starts
TimedCycleStart ==
    /\ fn_out.pc = "cycle_head"
    /\ fn_out.cycle_number < MaxCycles + 1
    /\ fn_out' = [fn_out EXCEPT !.pc = "batches", !.cycle_number = @ + 1]
    /\ UNCHANGED <<program_active, proxy_storage, storage_mutex, file_mutex, stats,
                   worker, main, json_file, txt_file, faults, ghost, fn_in>>

\* the batch loop is left: the threads of the last batch have been joined
TimedBatches ==
    /\ fn_out.pc = "batches"
    /\ fn_out' = [fn_out EXCEPT !.pc = "interval"]
    /\ UNCHANGED <<program_active, proxy_storage, storage_mutex, file_mutex, stats,
                   worker, main, json_file, txt_file, faults, ghost, fn_in>>

\* last_save after a checkpoint whose test has read the clock as now
\* (LastSaveMutant: the time of the save counted from the interval that was
\* due, to see that C26 depends on last_save = now)
LastSaveMutant(last_save, now) == last_save + SAVE_INTERVAL
LastSave(last_save, now) == now

\* now = time(NULL); if (difftime(now, last_save) >= SAVE_INTERVAL): the
\* checkpoint, last_save
TimedIntervalTest ==
    /\ fn_out.pc = "interval"
    /\ fn_out' = IF fn_out.clock - fn_out.last_save >= SAVE_INTERVAL
                 THEN [fn_out EXCEPT
                          !.pc = "cycle_tail", !.now = fn_out.clock,
                          !.last_save = LastSave(fn_out.last_save, fn_out.clock),
                          !.checkpoints = Append(@, [cycle |-> fn_out.cycle_number,
                                                     at |-> fn_out.clock])]
                 ELSE [fn_out EXCEPT !.pc = "cycle_tail", !.now = fn_out.clock]
    /\ UNCHANGED <<program_active, proxy_storage, storage_mutex, file_mutex, stats,
                   worker, main, json_file, txt_file, faults, ghost, fn_in>>

\* the delta, the pause
TimedCycleTail ==
    /\ fn_out.pc = "cycle_tail"
    /\ fn_out' = [fn_out EXCEPT !.pc = "cycle_head"]
    /\ UNCHANGED <<program_active, proxy_storage, storage_mutex, file_mutex, stats,
                   worker, main, json_file, txt_file, faults, ghost, fn_in>>

NextTimed ==
    \/ Tick
    \/ TimedCycleStart
    \/ TimedBatches
    \/ TimedIntervalTest
    \/ TimedCycleTail

SpecTimed == InitTimed /\ [][NextTimed]_vars

\* the time of the checkpoint before the k-th periodic one: the k-1-th, or
\* the first checkpoint, at the start
PreviousCheckpoint(k) == IF k = 1 THEN 0 ELSE fn_out.checkpoints[k - 1].at

\* C26: the periodic checkpoint is evaluated once in a cycle, when the batch
\* loop has been left (never while a batch runs); a cycle writes at most one
\* periodic checkpoint, and only when SAVE_INTERVAL seconds or more have
\* passed since the checkpoint before it; a cycle in which several intervals
\* have passed writes one checkpoint, not several.
C26_PeriodicCheckpoint ==
    /\ [][fn_out'.checkpoints # fn_out.checkpoints =>
             /\ fn_out.pc = "interval" /\ fn_out'.pc = "cycle_tail"
             /\ Len(fn_out'.checkpoints) = Len(fn_out.checkpoints) + 1]_vars
    /\ [](\A k \in 1..Len(fn_out.checkpoints) :
             /\ fn_out.checkpoints[k].at - PreviousCheckpoint(k) >= SAVE_INTERVAL
             /\ \A j \in 1..Len(fn_out.checkpoints) :
                   j # k => fn_out.checkpoints[j].cycle # fn_out.checkpoints[k].cycle)

\* a first cycle of two intervals has written one checkpoint, and the cycle
\* after it, one second later, none
C26_Witness ==
    /\ fn_out.pc = "cycle_tail"
    /\ fn_out.cycle_number = 2
    /\ fn_out.checkpoints = <<[cycle |-> 1, at |-> 2 * SAVE_INTERVAL]>>
    /\ fn_out.now = 2 * SAVE_INTERVAL + 1

(***************************************************************************)
(* The normalization of a field: a specification that applies              *)
(* sanitize_string to every text of SanitizeInputs.                        *)
(***************************************************************************)
\* the longest text
MaxField == 4

\* 'a', space, tab, line feed, a control byte, DEL and a byte above it
SanitizeBytes == {97, 32, 9, 10, 1, 127, 200}

SanitizeInputs ==
    UNION { [1..n -> SanitizeBytes] : n \in 0..MaxField }

InitSanitize ==
    /\ InitProgram
    /\ fn_in \in {[str |-> t] : t \in SanitizeInputs}
    /\ fn_out = <<>>

\* the call sanitize_string(str) on the text fn_in.str
ApplySanitize ==
    /\ fn_out = <<>>
    /\ fn_out' = <<[text |-> sanitize_string(fn_in.str)]>>
    /\ UNCHANGED <<program_active, proxy_storage, storage_mutex, file_mutex, stats,
                   worker, main, json_file, txt_file, faults, ghost, fn_in>>

SpecSanitize == InitSanitize /\ [][ApplySanitize]_vars

\* sanitize_string has been called
Sanitized == fn_out # <<>> /\ "text" \in DOMAIN fn_out[1]

\* a whitespace character, and a printable character that is none
Whitespace(c) == c \in {32, 9, 10, 13}
Visible(c) == c > 32 /\ c < 127

\* the places of str that the normalized text keeps: those of the visible
\* characters, and the first place of every run of whitespace that stands
\* between two visible characters (non-printable bytes aside)
KeptPlaces(str) ==
    { i \in 1..Len(str) :
        \/ Visible(str[i])
        \/ /\ Whitespace(str[i])
           /\ \E j \in 1..(i - 1) :
                 /\ Visible(str[j])
                 /\ \A k \in (j + 1)..(i - 1) : ~Visible(str[k]) /\ ~Whitespace(str[k])
           /\ \E j \in (i + 1)..Len(str) : Visible(str[j]) }

\* the normalized text of str: its visible characters, with one space for
\* every run of whitespace between two of them
Normalized(str) ==
    [k \in 1..Cardinality(KeptPlaces(str)) |->
        LET i == CHOOSE i \in KeptPlaces(str) :
                     Cardinality({j \in KeptPlaces(str) : j < i}) = k - 1
        IN  IF Visible(str[i]) THEN str[i] ELSE 32]

\* C27: the text sanitize_string leaves holds no non-printable byte, holds
\* one space for every maximal run of whitespace (space, tab, CR, LF)
\* between printable characters, and does not end with whitespace.
C27_SanitizeNormalizes ==
    Sanitized =>
        /\ \A k \in 1..Len(fn_out[1].text) :
              fn_out[1].text[k] >= 32 /\ fn_out[1].text[k] < 127
        /\ fn_out[1].text = Normalized(fn_in.str)
        /\ Len(fn_out[1].text) > 0 => ~Whitespace(fn_out[1].text[Len(fn_out[1].text)])

(***************************************************************************)
(* The stripping of label prefixes: a specification that applies the       *)
(* normalization and the loop over the prefix table to fields made of up   *)
(* to MaxLabels labels in a row before a value.                            *)
(***************************************************************************)
\* the labels in a row at the head of a field
MaxLabels == 3

\* a label of the table, as it is or followed by a space
LabelTexts(prefixes) ==
    {prefixes[i] : i \in 1..Len(prefixes)}
        \cup {Append(prefixes[i], 32) : i \in 1..Len(prefixes)}

\* the texts made of n labels
RECURSIVE LabelRuns(_, _)
LabelRuns(prefixes, n) ==
    IF n = 0 THEN {<<>>}
    ELSE {l \o r : l \in LabelTexts(prefixes), r \in LabelRuns(prefixes, n - 1)}

\* the captured fields: labels in a row, then "1.2.3.4", "443" or "deadbeef"
StripFields(name, prefixes, value) ==
    { [name |-> name, prefixes |-> prefixes, str |-> r \o value] :
          r \in UNION {LabelRuns(prefixes, n) : n \in 0..MaxLabels} }

StripInputs ==
    StripFields("server", field_prefixes, <<49, 46, 50, 46, 51, 46, 52>>)
        \cup {f \in StripFields("port", port_prefixes, <<52, 52, 51>>) :
                 Len(f.str) < PORT_SIZE}
        \cup StripFields("secret", secret_prefixes,
                         <<100, 101, 97, 100, 98, 101, 101, 102>>)

InitStrip ==
    /\ InitProgram
    /\ fn_in \in StripInputs
    /\ fn_out = <<>>

\* sanitize_string on the field, then the loop over its prefix table
ApplyStrip ==
    /\ fn_out = <<>>
    /\ fn_out' = <<[stripped |->
                       StripPrefixes(sanitize_string(fn_in.str), fn_in.prefixes, 1)]>>
    /\ UNCHANGED <<program_active, proxy_storage, storage_mutex, file_mutex, stats,
                   worker, main, json_file, txt_file, faults, ghost, fn_in>>

SpecStrip == InitStrip /\ [][ApplyStrip]_vars

\* the stripping has run
Stripped == fn_out # <<>> /\ "stripped" \in DOMAIN fn_out[1]

\* text with its letters in lower case
LowerCase(text) ==
    [k \in 1..Len(text) |-> IF text[k] >= 65 /\ text[k] <= 90 THEN text[k] + 32 ELSE text[k]]

\* text begins with label, whatever the case of the letters
BeginsWithLabel(text, label) ==
    /\ Len(text) >= Len(label)
    /\ LowerCase(SubSeq(text, 1, Len(label))) = LowerCase(label)

\* C28: after the stripping of the label prefixes, the field does not begin
\* with a label of its table ("Server:", "Host:"; "Port:"; "Secret:",
\* "Key:"), whatever the case of the letters, also when the captured field
\* carried several labels in a row.
C28_NoLabelLeft ==
    Stripped =>
        \A i \in 1..Len(fn_in.prefixes) :
            ~BeginsWithLabel(fn_out[1].stripped, fn_in.prefixes[i])

(***************************************************************************)
(* The download buffer: a specification of the successive calls of         *)
(* write_callback on the buffer of one fetch, each with the size of its    *)
(* chunk.  fn_out holds the DynamicBuffer (size, capacity), the number of  *)
(* calls, whether the transfer has been aborted (a call has returned 0),   *)
(* and the number of bytes that memcpy and the terminating NUL have        *)
(* written past the allocation.                                            *)
(***************************************************************************)
\* the calls of one transfer
MaxCalls == 4

\* content_buffer.capacity at line 717
INITIAL_CAPACITY == 1 * 1024 * 1024

\* element_size * element_count: one byte, what fills the first allocation
\* but for the NUL, one byte more, and chunks of 16 and of 48 MB
ChunkSizes ==
    {1, INITIAL_CAPACITY - 1, INITIAL_CAPACITY, 16 * INITIAL_CAPACITY, 48 * INITIAL_CAPACITY}

InitBuffer ==
    /\ InitProgram
    /\ fn_in = <<>>
    /\ fn_out = [size |-> 0, capacity |-> INITIAL_CAPACITY, calls |-> 0,
                 aborted |-> FALSE, outside |-> 0]

\* new_capacity of the growth branch
NewCapacity(buffer, total_size) ==
    Min(BUFFER_CAPACITY,
        IF buffer.capacity * 2 < buffer.size + total_size + 1
        THEN buffer.size + total_size + 1
        ELSE buffer.capacity * 2)

\* a call that returns total_size: the buffer grown if needed, the memcpy
\* and the NUL
write_callback(total_size) ==
    /\ ~fn_out.aborted /\ fn_out.calls < MaxCalls
    /\ program_active # 0
    /\ LET capacity == IF fn_out.size + total_size + 1 > fn_out.capacity
                       THEN NewCapacity(fn_out, total_size)
                       ELSE fn_out.capacity
       IN  fn_out' = [fn_out EXCEPT
                         !.capacity = capacity,
                         !.size = @ + total_size,
                         !.calls = @ + 1,
                         !.outside = IF fn_out.size + total_size + 1 > capacity
                                     THEN fn_out.size + total_size + 1 - capacity
                                     ELSE 0]
    /\ UNCHANGED <<program_active, proxy_storage, storage_mutex, file_mutex, stats,
                   worker, main, json_file, txt_file, faults, ghost, fn_in>>

\* a call in which realloc returns NULL: return 0, the transfer is aborted
WriteNoMemory(total_size) ==
    /\ ~fn_out.aborted /\ fn_out.calls < MaxCalls
    /\ program_active # 0
    /\ fn_out.size + total_size + 1 > fn_out.capacity
    /\ fn_out' = [fn_out EXCEPT !.calls = @ + 1, !.aborted = TRUE]
    /\ UNCHANGED <<program_active, proxy_storage, storage_mutex, file_mutex, stats,
                   worker, main, json_file, txt_file, faults, ghost, fn_in>>

NextBuffer ==
    \E total_size \in ChunkSizes :
        \/ write_callback(total_size)
        \/ WriteNoMemory(total_size)

SpecBuffer == InitBuffer /\ [][NextBuffer]_vars

\* C29: after every call of write_callback the size stored and the
\* terminating byte fit in the capacity allocated, the capacity is at most
\* BUFFER_CAPACITY, and no byte has been written outside the allocation.
C29_BufferWithinCapacity ==
    /\ fn_out.size + 1 <= fn_out.capacity
    /\ fn_out.capacity <= BUFFER_CAPACITY
    /\ fn_out.outside = 0

(***************************************************************************)
(* The cycle counter.                                                      *)
(***************************************************************************)
\* the cycles that have run to completion: every cycle started, less the
\* one the main thread is in
CyclesCompleted == IF InCycle THEN main.cycle_number - 1 ELSE main.cycle_number

\* C30: completed_cycles is at every moment the number of cycles that
\* have run to completion (their batches joined, their delta computed); a
\* cycle that has only started is not counted.
C30_CompletedCyclesCounted == stats.completed_cycles = CyclesCompleted

(***************************************************************************)
(* The three counters of the store.                                        *)
(***************************************************************************)
\* the store has not been freed
StoreAllocated == main.pc # "exit"

\* total_proxies, unique_proxies and successful_proxies are one number
CountersAgree ==
    /\ stats.total_proxies = stats.unique_proxies
    /\ stats.unique_proxies = stats.successful_proxies

InCheckpoint == main.pc \in {"save_begin", "save_json", "save_txt", "save_done"}

\* the header of a file written agrees with its list
HeaderCounts(file) ==
    file.written =>
        /\ file.total_proxies = Len(file.proxies)
        /\ file.unique_proxies = Len(file.proxies)

\* C32: during every call of save_proxies_to_json (the initial, the
\* periodic and the final one) no worker thread exists, active_workers is 0
\* and no merge is in progress; the count the writer samples is the size
\* of the store, and the total_proxies and unique_proxies of the header of
\* a checkpoint are the number of records it lists.
C32_CheckpointsRunAlone ==
    /\ InCheckpoint =>
          /\ \A s \in Slots : worker[s] = NoThread
          /\ stats.active_workers = 0
          /\ storage_mutex = FREE
    /\ Saving => main.current_total = StoreSize
    /\ main.pc = "save_json" =>
          /\ main.root.total_proxies = Len(main.root.proxies)
          /\ main.root.unique_proxies = Len(main.root.proxies)
          /\ Len(main.root.proxies) = StoreSize
    /\ HeaderCounts(json_file)
    /\ HeaderCounts(txt_file)

\* the periodic checkpoint of a cycle whose threads have merged three
\* records is being written
C32_Witness ==
    /\ main.pc = "save_json"
    /\ main.save_return = "cycle_tail"
    /\ main.current_total = 3
    /\ Len(main.root.proxies) = 3
    /\ stats.processed_urls > 0

(***************************************************************************)
(* The final checkpoint.                                                   *)
(***************************************************************************)
\* the checkpoint of cleanup_resources has run to its end
FinalCheckpointDone == main.pc = "save_done" /\ main.save_return = "teardown"

\* the record of store slot i is among the entries of the file
ListedIn(file, i) == \E k \in 1..Len(file.proxies) : file.proxies[k] = proxy_storage[i]

MaxSteps == 3

\* the value of a mutex after pthread_mutex_destroy
DESTROYED == <<"destroyed">>

LockThreads == {"main", "worker_a", "worker_b"}
WorkerThreads == LockThreads \ {"main"}
Mutexes == {"storage_mutex", "file_mutex", "log_mutex"}

\* cleanup_resources has destroyed the mutexes
Destroyed == \E m \in Mutexes : fn_out.mutex[m] = DESTROYED

InitLocks ==
    /\ InitProgram
    /\ fn_in = <<>>
    /\ fn_out = [mutex |-> [m \in Mutexes |-> FREE],
                 thread |-> [t \in LockThreads |->
                               [pc |-> "run", held |-> <<>>, ret |-> "", calls |-> 0]],
                 freed |-> FALSE,
                 after_destroy |-> {}]

\* pthread_mutex_unlock: the value of the mutex after it
\* (pthread_mutex_unlockMutant: the mutex left locked, to see that C34
\* depends on the release)
pthread_mutex_unlockMutant(mutex) == mutex
pthread_mutex_unlock(mutex) == FREE

\* the frame condition of the specification
LocksOnly ==
    UNCHANGED <<program_active, proxy_storage, storage_mutex, file_mutex, stats,
                worker, main, json_file, txt_file, faults, ghost, fn_in>>

\* thread t takes mutex m and goes on at pc
Acquire(t, m, pc) ==
    /\ LockGranted(fn_out.mutex[m])
    /\ fn_out' = [fn_out EXCEPT !.mutex[m] = <<t>>,
                                !.thread[t].pc = pc,
                                !.thread[t].held = Append(@, m)]
    /\ LocksOnly

\* thread t gives mutex m back and goes on at pc
Release(t, m, pc) ==
    /\ fn_out' = [fn_out EXCEPT !.mutex[m] = pthread_mutex_unlock(@),
                                !.thread[t].pc = pc,
                                !.thread[t].held = SelectSeq(@, LAMBDA h : h # m)]
    /\ LocksOnly

\* a thread outside every critical section reaches a call of log_message
CallLog(t) ==
    /\ fn_out.thread[t].pc = "run"
    /\ fn_out.thread[t].calls < MaxSteps
    /\ ~Destroyed
    /\ fn_out' = [fn_out EXCEPT !.thread[t].pc = "log_lock",
                                !.thread[t].ret = "run",
                                !.thread[t].calls = @ + 1]
    /\ LocksOnly

\* log_message: pthread_mutex_lock(&log_mutex)
LogLock(t) ==
    /\ fn_out.thread[t].pc = "log_lock"
    /\ Acquire(t, "log_mutex", "log_unlock")

\* log_message: the lines printed, pthread_mutex_unlock(&log_mutex), return
LogUnlock(t) ==
    /\ fn_out.thread[t].pc = "log_unlock"
    /\ Release(t, "log_mutex", fn_out.thread[t].ret)

\* a worker thread reaches the merge with discovery_count > 0
CallMerge(t) ==
    /\ t \in WorkerThreads
    /\ fn_out.thread[t].pc = "run"
    /\ fn_out.thread[t].calls < MaxSteps
    /\ ~Destroyed
    /\ fn_out' = [fn_out EXCEPT !.thread[t].pc = "merge_lock",
                                !.thread[t].calls = @ + 1]
    /\ LocksOnly

\* pthread_mutex_lock(&storage_mutex)
MergeLock(t) ==
    /\ fn_out.thread[t].pc = "merge_lock"
    /\ Acquire(t, "storage_mutex", "merge_unlock")

\* the merge loop and the counters, pthread_mutex_unlock(&storage_mutex)
MergeUnlock(t) ==
    /\ fn_out.thread[t].pc = "merge_unlock"
    /\ Release(t, "storage_mutex", "run")

\* the main thread calls save_proxies_to_json
CallSave(t) ==
    /\ t = "main"
    /\ fn_out.thread[t].pc = "run"
    /\ fn_out.thread[t].calls < MaxSteps
    /\ ~Destroyed
    /\ fn_out' = [fn_out EXCEPT !.thread[t].pc = "save_lock",
                                !.thread[t].calls = @ + 1]
    /\ LocksOnly

\* pthread_mutex_lock(&file_mutex)
SaveLock(t) ==
    /\ fn_out.thread[t].pc = "save_lock"
    /\ Acquire(t, "file_mutex", "save_root")

\* json_object() returns NULL: the unlock and the return
SaveEarlyReturn(t) ==
    /\ fn_out.thread[t].pc = "save_root"
    /\ Release(t, "file_mutex", "run")

\* the root object is built
SaveRoot(t) ==
    /\ fn_out.thread[t].pc = "save_root"
    /\ fn_out' = [fn_out EXCEPT !.thread[t].pc = "save_json"]
    /\ LocksOnly

\* the thread after the fopen of a file: opened, it writes the file and
\* calls log_message; not opened, it goes on
AfterOpen(t, opened, next) ==
    IF opened
    THEN [fn_out EXCEPT !.thread[t].pc = "log_lock", !.thread[t].ret = next]
    ELSE [fn_out EXCEPT !.thread[t].pc = next]

\* proxies.json
SaveJsonFile(t) ==
    /\ fn_out.thread[t].pc = "save_json"
    /\ \E opened \in BOOLEAN : fn_out' = AfterOpen(t, opened, "save_txt")
    /\ LocksOnly

\* proxies.txt
SaveTxtFile(t) ==
    /\ fn_out.thread[t].pc = "save_txt"
    /\ \E opened \in BOOLEAN : fn_out' = AfterOpen(t, opened, "save_unlock")
    /\ LocksOnly

\* pthread_mutex_unlock(&file_mutex) at the end of save_proxies_to_json
SaveUnlock(t) ==
    /\ fn_out.thread[t].pc = "save_unlock"
    /\ Release(t, "file_mutex", "run")

NextLocks ==
    \E t \in LockThreads :
        \/ CallLog(t) \/ LogLock(t) \/ LogUnlock(t)
        \/ CallMerge(t) \/ MergeLock(t) \/ MergeUnlock(t)
        \/ CallSave(t) \/ SaveLock(t) \/ SaveEarlyReturn(t) \/ SaveRoot(t)
        \/ SaveJsonFile(t) \/ SaveTxtFile(t) \/ SaveUnlock(t)

SpecLocks == InitLocks /\ [][NextLocks]_vars

\* the mutex thread t is blocked on: it is at the lock call and another
\* thread, or t itself, holds the mutex
BlockedOn(t) ==
    {m \in Mutexes :
        /\ fn_out.thread[t].pc = CASE m = "log_mutex" -> "log_lock"
                                   [] m = "storage_mutex" -> "merge_lock"
                                   [] m = "file_mutex" -> "save_lock"
        /\ fn_out.mutex[m] # FREE}

\* t waits for a mutex that u holds
WaitsFor(t, u) == \E m \in BlockedOn(t) : fn_out.mutex[m] = <<u>>

\* a cycle of waiting threads
Deadlocked ==
    \E t \in LockThreads :
        \/ WaitsFor(t, t)
        \/ \E u \in LockThreads : WaitsFor(t, u) /\ WaitsFor(u, t)
        \/ \E u, v \in LockThreads : WaitsFor(t, u) /\ WaitsFor(u, v) /\ WaitsFor(v, t)

\* the orders in which a thread holds mutexes
Nestings ==
    {<<>>, <<"storage_mutex">>, <<"log_mutex">>, <<"file_mutex">>,
     <<"file_mutex", "log_mutex">>}

\* C34: the three mutexes do not deadlock.  storage_mutex and log_mutex
\* are never held when a mutex is acquired, the one nesting is file_mutex
\* then log_mutex, a mutex is owned by the thread that holds it, a thread
\* outside the critical sections (the early return of the checkpoint
\* writer included) holds none, and no cycle of threads waiting for each
\* other exists.
C34_NoDeadlock ==
    /\ \A t \in LockThreads : fn_out.thread[t].held \in Nestings
    /\ \A t \in LockThreads : \A m \in Mutexes :
          fn_out.mutex[m] = <<t>> <=>
              \E k \in 1..Len(fn_out.thread[t].held) : fn_out.thread[t].held[k] = m
    /\ \A t \in LockThreads : fn_out.thread[t].pc = "run" => fn_out.thread[t].held = <<>>
    /\ ~Deadlocked

\* the main thread, in a checkpoint, holds file_mutex and waits for
\* log_mutex, which a worker holds while the other worker is in its merge
C34_Witness ==
    /\ fn_out.thread["main"].pc = "log_lock"
    /\ fn_out.thread["main"].held = <<"file_mutex">>
    /\ fn_out.mutex["log_mutex"] = <<"worker_a">>
    /\ fn_out.mutex["storage_mutex"] = <<"worker_b">>
    /\ fn_out.thread["main"].calls > 1

(***************************************************************************)
(* The end of cleanup_resources: the specification of the mutexes, with    *)
(* the main thread destroying them and freeing the store once the worker   *)
(* threads have ended, and its last call of log_message.                   *)
(***************************************************************************)
\* the positions of a thread in code that reads or writes the store
StoreAccess == {"merge_unlock", "save_root", "save_json", "save_txt", "save_unlock"}

\* the checkpoint of the cleanup done: pthread_mutex_destroy of the three
\* mutexes, free(proxy_storage), and the call of log_message that follows
cleanup_resources(t) ==
    /\ t = "main"
    /\ \A u \in LockThreads : fn_out.thread[u].pc = "run"
    /\ ~Destroyed
    /\ fn_out' = [fn_out EXCEPT !.mutex = [m \in Mutexes |-> DESTROYED],
                                !.freed = TRUE,
                                !.thread[t].pc = "log_lock",
                                !.thread[t].ret = "exit"]
    /\ LocksOnly

\* pthread_mutex_lock of a destroyed mutex is undefined: the call returns
\* and log_message runs to its end, or the thread never comes back
LogLockDestroyed(t) ==
    /\ fn_out.thread[t].pc = "log_lock"
    /\ fn_out.mutex["log_mutex"] = DESTROYED
    /\ \E outcome \in {fn_out.thread[t].ret, "blocked"} :
          fn_out' = [fn_out EXCEPT !.thread[t].pc = outcome,
                                   !.after_destroy = @ \cup {"log_mutex"}]
    /\ LocksOnly

NextCleanup ==
    \/ NextLocks
    \/ \E t \in LockThreads : cleanup_resources(t) \/ LogLockDestroyed(t)

SpecCleanup == InitLocks /\ [][NextCleanup]_vars

\* C35: no mutex is locked after it has been destroyed, and no thread is
\* in code that accesses the store after the store has been freed.
C35_NoUseAfterCleanup ==
    /\ fn_out.after_destroy = {}
    /\ fn_out.freed => \A t \in LockThreads : fn_out.thread[t].pc \notin StoreAccess

=============================================================================
